---- MODULE Spec2Model ----
(***************************************************************************)
(* News tracker: the Cluster Store (src/src/database.py) and the           *)
(* collection cycle that feeds it (src/src/scheduler.py,                   *)
(* src/src/data_processor.py).                                             *)
(*                                                                         *)
(* The two tables are modelled row by row.  news_articles is a sequence of *)
(* rows in insertion order, so that two rows with one URL are two          *)
(* elements; news_clusters is a set of rows keyed by id.  An Article's     *)
(* primary key is md5(url) (data_processor.py:237), so a row is identified *)
(* by its url; the columns that no store operation reads (title, content,  *)
(* source_name, ...) are left out.  Time is an integer clock; the column   *)
(* defaults datetime.utcnow are the clock's value at the insert.           *)
(***************************************************************************)
EXTENDS Integers, Sequences, FiniteSets

VARIABLES articles, clusters, now, last, cyc, srch, gate, ing, norm, run, txn, rss

vars == <<articles, clusters, now, last, cyc, srch, gate, ing, norm, run, txn, rss>>

\* ---------------------------------------------------------------- bounds
\* the longest articles_data list a caller submits
MaxBatch == 2
\* the number of store calls in a run (the clock's last value)
MaxTime == 3
\* the largest retention horizon, in clock units
MaxDays == 1
\* the longest item list a source returns for one request
MaxItems == 1
\* the number of collection cycles in a run
MaxCycles == 2

\* The URLs and the cluster identities in play.  Both are opaque strings to the
\* store; two of each give a stored and a new URL, and a cluster X and another Y.
Urls == {"u1", "u2"}
ClusterIds == {"X", "Y"}
Batches == UNION {[1..n -> Urls] : n \in 0..MaxBatch}

\* cluster_id = Column(..., nullable=True): the value of an Article without a Cluster
NULL == "NULL"

\* ---------------------------------------------------------------- rows
NewsArticle(url, cluster_id, t) ==
    [url |-> url, cluster_id |-> cluster_id, collected_date |-> t]

NewsCluster(id, source_count, t) ==
    [id |-> id, source_count |-> source_count, created_date |-> t]

\* session.query(NewsArticle).filter_by(url=...).first(), truthy or not.  The
\* session autoflushes before each query, so rows added earlier in the same
\* call are seen.
UrlStored(rows, url) == \E i \in DOMAIN rows : rows[i].url = url

\* session.query(NewsCluster).filter_by(id=...).first(), truthy or not
ClusterExists(clus, id) == \E c \in clus : c.id = id

\* the rows a lazy load of cluster.articles returns: those whose cluster_id is id
LinkedRows(rows, id) == SelectSeq(rows, LAMBDA r : r.cluster_id = id)

CountUrl(rows, url) == Len(SelectSeq(rows, LAMBDA r : r.url = url))

\* ---------------------------------------------------------------- add loops
\* One pass of "if not query(url).first(): session.add(NewsArticle(...)); count += 1"
\* (mutant) the loop without its URL query
AddIfNew_NoCheck(rows, url, cluster_id, t) ==
    Append(rows, NewsArticle(url, cluster_id, t))

\* (mutant) an upsert: a stored URL's row is linked to the submitted cluster
AddIfNew_Relink(rows, url, cluster_id, t) ==
    IF UrlStored(rows, url)
    THEN [i \in DOMAIN rows |->
            IF rows[i].url = url THEN [rows[i] EXCEPT !.cluster_id = cluster_id]
            ELSE rows[i]]
    ELSE Append(rows, NewsArticle(url, cluster_id, t))

AddIfNew(rows, url, cluster_id, t) ==
    IF UrlStored(rows, url) THEN rows
    ELSE Append(rows, NewsArticle(url, cluster_id, t))

\* The for loop over articles_data, on the session's view of the table
RECURSIVE AddLoop(_, _, _, _)
AddLoop(rows, batch, cluster_id, t) ==
    IF batch = <<>> THEN rows
    ELSE AddLoop(AddIfNew(rows, Head(batch), cluster_id, t), Tail(batch), cluster_id, t)

\* ---------------------------------------------------------------- transactions
\* A call works on its session's view of the tables and publishes it with
\* session.commit(); the except branch calls session.rollback().
DB(rows, clus) == [articles |-> rows, clusters |-> clus]

Commit(pre, sess) == sess

\* (mutant) the except branch without session.rollback(): the flushed rows stay
Rollback_Keep(pre, sess) == sess

Rollback(pre, sess) == pre

\* An exception raised inside a call's try block is an input, fail: 0 when
\* nothing raises, 1 when something does.  Wherever it is raised, the except
\* branch rolls back the whole session; the model raises it at the last
\* statement that can, session.commit(), where the session holds the most.
Fails == 0..1

\* ---------------------------------------------------------------- Database.add_cluster
\* (mutant) a created Cluster keeps the descriptor's source_count
add_cluster_session_DescCount(db, t, cluster_data, articles_data) ==
    LET id == cluster_data.id
        rows == AddLoop(db.articles, articles_data, id, t)
        new_count == Len(rows) - Len(db.articles)
        merged == {IF c.id = id
                   THEN [c EXCEPT !.source_count = Len(LinkedRows(rows, id)) + new_count]
                   ELSE c : c \in db.clusters}
        created == db.clusters \cup {NewsCluster(id, cluster_data.source_count, t)}
    IN  [db |-> DB(rows, IF ClusterExists(db.clusters, id) THEN merged ELSE created),
         count |-> new_count]

\* The session's tables when add_cluster reaches its commit, or raises.
\* Merge branch: source_count = len(existing.articles) + new_count, where
\* existing.articles is loaded lazily at that line, after the loop: the load
\* autoflushes the pending rows and selects every row whose cluster_id is the
\* cluster's, the rows just added among them.
\* Create branch: the Cluster row is flushed with the descriptor's values, then
\* source_count is overwritten with the loop's count.
add_cluster_session(db, t, cluster_data, articles_data) ==
    LET id == cluster_data.id
        existing == ClusterExists(db.clusters, id)
        rows == AddLoop(db.articles, articles_data, id, t)
        new_count == Len(rows) - Len(db.articles)
        merged == {IF c.id = id
                   THEN [c EXCEPT !.source_count = Len(LinkedRows(rows, id)) + new_count]
                   ELSE c : c \in db.clusters}
        created == db.clusters \cup {NewsCluster(id, new_count, t)}
    IN  [db |-> DB(rows, IF existing THEN merged ELSE created), count |-> new_count]

\* (mutant) the call returns the number of articles submitted
add_cluster_RetSubmitted(db, t, cluster_data, articles_data, fail) ==
    LET s == add_cluster_session(db, t, cluster_data, articles_data)
    IN  IF fail # 0
        THEN [db |-> Rollback(db, s.db), ret |-> 0]
        ELSE [db |-> Commit(db, s.db), ret |-> Len(articles_data)]

add_cluster(db, t, cluster_data, articles_data, fail) ==
    LET s == add_cluster_session(db, t, cluster_data, articles_data)
    IN  IF fail # 0
        THEN [db |-> Rollback(db, s.db), ret |-> 0]
        ELSE [db |-> Commit(db, s.db), ret |-> s.count]

\* ---------------------------------------------------------------- Database.add_unclustered_article
\* (mutant) the article is added without the URL query
add_unclustered_article_NoCheck(db, t, url, fail) ==
    LET s == DB(Append(db.articles, NewsArticle(url, NULL, t)), db.clusters)
    IN  IF fail # 0
        THEN [db |-> db, ret |-> FALSE]
        ELSE [db |-> s, ret |-> TRUE]

\* fail: 0 nothing raises, 1 the constructor or the commit raises
add_unclustered_article(db, t, url, fail) ==
    IF UrlStored(db.articles, url)
    THEN [db |-> db, ret |-> FALSE]
    ELSE LET s == DB(Append(db.articles, NewsArticle(url, NULL, t)), db.clusters)
         IN  IF fail # 0
             THEN [db |-> Rollback(db, s), ret |-> FALSE]
             ELSE [db |-> Commit(db, s), ret |-> TRUE]

\* ---------------------------------------------------------------- Database.bulk_add_articles
bulk_add_articles(db, t, batch, fail) ==
    LET rows == AddLoop(db.articles, batch, NULL, t)
        s == DB(rows, db.clusters)
    IN  IF fail # 0
        THEN [db |-> Rollback(db, s), ret |-> 0]
        ELSE [db |-> Commit(db, s), ret |-> Len(rows) - Len(db.articles)]

\* ---------------------------------------------------------------- Database.cleanup_old_data
\* (mutant) deleting a Cluster also deletes the Articles linked to it
cleanup_old_data_Cascade(db, t, days, fail) ==
    LET cutoff == t - days
        clus == {c \in db.clusters : ~(c.created_date < cutoff)}
        gone == {c.id : c \in db.clusters \ clus}
        rows == SelectSeq(db.articles,
                          LAMBDA r : ~(r.collected_date < cutoff) /\ r.cluster_id \notin gone)
    IN  IF fail # 0
        THEN [db |-> db, ret |-> 0]
        ELSE [db |-> DB(rows, clus), ret |-> Len(db.articles) - Len(rows)]

\* Two bulk DELETEs (Query.delete()): rows are removed by their own date column
\* only.  A bulk delete does not load the Cluster objects, so the ORM cascade of
\* NewsCluster.articles does not run.
\* fail: 0 nothing raises, 1 a DELETE or the commit raises
cleanup_old_data(db, t, days, fail) ==
    LET cutoff == t - days
        rows == SelectSeq(db.articles, LAMBDA r : ~(r.collected_date < cutoff))
        clus == {c \in db.clusters : ~(c.created_date < cutoff)}
        s == DB(rows, clus)
    IN  IF fail # 0
        THEN [db |-> Rollback(db, s), ret |-> 0]
        ELSE [db |-> Commit(db, s), ret |-> Len(db.articles) - Len(rows)]

\* ---------------------------------------------------------------- the store's callers
\* The descriptor both callers build (data_processor.py:71-78 and :121-128):
\* its source_count is the length of the article list submitted with it.
ClusterData(id, articles_data) == [id |-> id, source_count |-> Len(articles_data)]

\* last records the call that produced the current state: its arguments, its
\* return value and the tables as they were when it started.
NoCall ==
    [op |-> "none", cluster_data |-> ClusterData(NULL, <<>>), batch |-> <<>>,
     fail |-> 0, days |-> 0, ret |-> 0, pre |-> DB(<<>>, {}), at |-> 0]

Call(op, cluster_data, batch, fail, days, ret) ==
    [op |-> op, cluster_data |-> cluster_data, batch |-> batch, fail |-> fail,
     days |-> days, ret |-> ret, pre |-> DB(articles, clusters), at |-> now]

\* No cycle has started: the state of NewsScheduler after __init__
NoCycle ==
    [n |-> 0, pc |-> "idle", person |-> 0, new_articles |-> 0, total_new |-> 0,
     rss_count |-> 0, reports |-> 0, prev_added |-> {}, again |-> {}, added |-> {},
     trace |-> <<>>]

\* No search call is running: NewsCatcherClient after __init__.  log is the
\* record of what a call did: the requests it sent, the answers it got, its
\* sleeps and its return.
NoSearch ==
    [pc |-> "idle", attempt |-> 0, clustering_enabled |-> TRUE, log |-> <<>>]

\* No verify_person call has been made
NoGate ==
    [pc |-> "idle", text |-> <<>>, ents |-> <<>>, person_name |-> <<>>, ret |-> FALSE]

\* The process has not started: nothing is constructed and no step has run.
\* person_tracked and cluster_person are the person_tracked columns of the
\* two tables, by url and by cluster id (0 where no row was ever written).
NoStep ==
    [source |-> "none", person |-> 0, tag |-> "none", n_found |-> 0,
     accepted |-> {}, raising |-> {}, linkless |-> FALSE,
     clean |-> <<>>,
     processed |-> <<>>, fail |-> 0, pre |-> [articles |-> <<>>, clusters |-> {}],
     count |-> 0]

NoIngest ==
    [proc |-> "starting", ner |-> FALSE, vp |-> FALSE, n |-> 0,
     person_tracked |-> [u \in Urls |-> 0], cluster_person |-> [id \in ClusterIds |-> 0],
     step |-> NoStep]

\* No normalizer function has been called
NoNorm ==
    [pc |-> "idle", fn |-> "none", title |-> <<>>, category |-> "",
     date_str |-> [type |-> "None", text |-> "None"],
     date |-> [raised |-> FALSE, kind |-> "none", of |-> "", fmt |-> ""], kept |-> TRUE]

\* No entry point has been started.  main_step and job_step are the positions
\* of the two threads that can execute run_news_collection (0: not executing):
\* the main thread and the scheduler's worker thread.
NoRun ==
    [entry |-> "none", pc |-> "boot", started |-> FALSE, main_step |-> 0, job_step |-> 0,
     fires |-> 0]

\* No store operation is open
NoOp ==
    [pc |-> "idle", op |-> "none", id |-> NULL, batch |-> <<>>, i |-> 0, existing |-> FALSE,
     pending |-> <<>>, ret |-> 0, added |-> FALSE, raised |-> "",
     before |-> DB(<<>>, {}), after |-> DB(<<>>, {})]

NoTxn == [o \in {"A", "B"} |-> NoOp]

\* No feed pass is under way.  language is the language column of the
\* Article table, by url ("" where no row was written).
NoFeed ==
    [pc |-> "idle", lang |-> "", vp |-> FALSE, found |-> <<>>, clean |-> <<>>,
     texts |-> <<>>, fit |-> "", groups |-> <<>>, language |-> [u \in Urls |-> ""]]

Init ==
    /\ articles = <<>>
    /\ clusters = {}
    /\ now = 0
    /\ last = NoCall
    /\ cyc = NoCycle
    /\ srch = NoSearch
    /\ gate = NoGate
    /\ ing = NoIngest
    /\ norm = NoNorm
    /\ run = NoRun
    /\ txn = NoTxn
    /\ rss = NoFeed

\* Every call reads datetime.utcnow(), and the clock has moved on by the next
\* call: timestamps grow from call to call.  MaxTime bounds the calls of a run.
Returned(r, call) ==
    /\ now < MaxTime
    /\ articles' = r.db.articles
    /\ clusters' = r.db.clusters
    /\ last' = call
    /\ now' = now + 1
    /\ UNCHANGED <<cyc, srch, gate, ing, norm, run, txn, rss>>

AddCluster ==
    \E id \in ClusterIds, batch \in Batches, fail \in Fails :
        LET cluster_data == ClusterData(id, batch)
            r == add_cluster(DB(articles, clusters), now, cluster_data, batch, fail)
        IN  Returned(r, Call("add_cluster", cluster_data, batch, fail, 0, r.ret))

AddUnclusteredArticle ==
    \E url \in Urls, fail \in Fails :
        LET r == add_unclustered_article(DB(articles, clusters), now, url, fail)
        IN  Returned(r, Call("add_unclustered_article", ClusterData(NULL, <<>>),
                             <<url>>, fail, 0, r.ret))

BulkAddArticles ==
    \E batch \in Batches, fail \in Fails :
        LET r == bulk_add_articles(DB(articles, clusters), now, batch, fail)
        IN  Returned(r, Call("bulk_add_articles", ClusterData(NULL, <<>>),
                             batch, fail, 0, r.ret))

CleanupOldData ==
    \E days \in 0..MaxDays, fail \in Fails :
        LET r == cleanup_old_data(DB(articles, clusters), now, days, fail)
        IN  Returned(r, Call("cleanup_old_data", ClusterData(NULL, <<>>),
                             <<>>, fail, days, r.ret))

Next ==
    \/ AddCluster
    \/ AddUnclusteredArticle
    \/ BulkAddArticles
    \/ CleanupOldData

Spec == Init /\ [][Next]_vars

\* ================================================================ the collection cycle
\* NewsScheduler.run_news_collection, one action per network answer it
\* processes: for each tracked person the clustering API, the feed in 'en' and
\* in 'hi', the simple search API; then the retention cleanup and the report.
\* cyc holds the handler's position and locals (person, new_articles,
\* total_new, the feed step's new_count), and for the claims the URLs the
\* cycle inserted (added), those the cycle before it inserted (prev_added), and
\* those of prev_added that a source of this cycle returned again (again), and
\* the steps the cycle has invoked, in order (trace).

\* people_to_track has two entries
NumPersons == 2

\* DAYS_TO_KEEP, in clock units; in a cycle run the clock counts cycles (the
\* cron trigger fires once a day, the horizon is a number of days >= 1)
DAYS_TO_KEEP == MaxDays

\* A raw item: its link ("" when it has none) and what the gate does with its
\* title and summary for the person queried: verify_person answers True
\* ("accept") or False ("reject"), or the evaluation raises ("raise").  An
\* item without a link is dropped whatever the gate does, so one such item
\* stands for all.
NoLink == ""
GateOutcomes == {"accept", "reject", "raise"}
RawItems == [link : Urls, gate : GateOutcomes] \cup {[link |-> NoLink, gate |-> "accept"]}
ItemLists == UNION {[1..n -> RawItems] : n \in 0..MaxItems}

Links(items) == {items[i].link : i \in DOMAIN items} \ {NoLink}

\* a variant of ProcessGated without the link test
RECURSIVE ProcessGated_NoLinkTest(_)
ProcessGated_NoLinkTest(items) ==
    IF items = <<>> THEN <<>>
    ELSE LET it == Head(items)
         IN  IF it.gate = "accept"
             THEN <<it.link>> \o ProcessGated_NoLinkTest(Tail(items))
             ELSE ProcessGated_NoLinkTest(Tail(items))

\* a variant of ProcessGated that keeps an item when the gate raised on it
RECURSIVE ProcessGated_KeepRaised(_)
ProcessGated_KeepRaised(items) ==
    IF items = <<>> THEN <<>>
    ELSE LET it == Head(items)
         IN  IF it.gate # "reject" /\ it.link # NoLink
             THEN <<it.link>> \o ProcessGated_KeepRaised(Tail(items))
             ELSE ProcessGated_KeepRaised(Tail(items))

\* DataProcessor._process_single_article over a list: the gate, then the link
\* test; what is left is the url of each Article dict (url = link)
RECURSIVE ProcessGated(_)
ProcessGated(items) ==
    IF items = <<>> THEN <<>>
    ELSE LET it == Head(items)
         IN  IF it.gate = "accept" /\ it.link # NoLink
             THEN <<it.link>> \o ProcessGated(Tail(items))
             ELSE ProcessGated(Tail(items))

\* DataProcessor.process_newsdata_articles: no gate, the link test only
RECURSIVE ProcessNewsdata(_)
ProcessNewsdata(items) ==
    IF items = <<>> THEN <<>>
    ELSE LET it == Head(items)
         IN  IF it.link # NoLink
             THEN <<it.link>> \o ProcessNewsdata(Tail(items))
             ELSE ProcessNewsdata(Tail(items))

\* The dicts of process_newsdata_articles carry the key 'image_url'
\* (data_processor.py:215), which is no column of NewsArticle: the declarative
\* constructor NewsArticle(**article_data) raises TypeError on it.
ConstructorRaises(data_source) == data_source = "newsdata_io"

\* The loop "for art in ...: if self.db.add_unclustered_article(art): new_count += 1"
RECURSIVE AddStandalone(_, _, _, _)
AddStandalone(db, t, urls, fail) ==
    IF urls = <<>> THEN [db |-> db, count |-> 0]
    ELSE LET r == add_unclustered_article(db, t, Head(urls), fail)
             rest == AddStandalone(r.db, t, Tail(urls), fail)
         IN  [db |-> rest.db, count |-> rest.count + (IF r.ret THEN 1 ELSE 0)]

\* The loop over the processed items of _collect_newscatcher and
\* _collect_google_rss: a cluster is stored with add_cluster, an item without
\* cluster_data article by article.  The feed step skips the latter.
RECURSIVE StoreItems(_, _, _, _, _)
StoreItems(db, t, items, fail, feed) ==
    IF items = <<>> THEN [db |-> db, count |-> 0]
    ELSE LET it == Head(items)
             r == IF it.clustered
                  THEN LET a == add_cluster(db, t, it.cluster_data, it.articles_data, fail)
                       IN  [db |-> a.db, count |-> a.ret]
                  ELSE IF feed THEN [db |-> db, count |-> 0]
                       ELSE AddStandalone(db, t, it.articles_data, fail)
             rest == StoreItems(r.db, t, Tail(items), fail, feed)
         IN  [db |-> rest.db, count |-> r.count + rest.count]

\* ---------------------------------------------------------------- the clustering API
\* NewsCatcherClient.search: None, or a dict tagged clustered with its clusters,
\* or tagged unclustered with its flat articles
NoResult == [ok |-> FALSE, clustered |-> FALSE, clusters |-> <<>>, articles |-> <<>>]

ApiResults ==
    {NoResult}
    \cup {[ok |-> TRUE, clustered |-> FALSE, clusters |-> <<>>, articles |-> a] :
            a \in ItemLists}
    \cup {[ok |-> TRUE, clustered |-> TRUE,
           clusters |-> <<[cluster_id |-> id, articles |-> a]>>, articles |-> <<>>] :
            id \in ClusterIds, a \in ItemLists}

\* DataProcessor.process_newscatcher_response
RECURSIVE ProcessClusters(_)
ProcessClusters(cls) ==
    IF cls = <<>> THEN <<>>
    ELSE LET c == Head(cls)
             articles_data == ProcessGated(c.articles)
         IN  IF c.articles = <<>> THEN ProcessClusters(Tail(cls))
             ELSE <<[clustered |-> TRUE,
                     cluster_data |-> ClusterData(c.cluster_id, articles_data),
                     articles_data |-> articles_data]>>
                  \o ProcessClusters(Tail(cls))

\* a variant of Unclustered that hands the flat articles on as one cluster
Unclustered_OneCluster(urls) ==
    IF urls = <<>> THEN <<>>
    ELSE <<[clustered |-> TRUE, cluster_data |-> ClusterData("X", urls),
            articles_data |-> urls]>>

Unclustered(urls) ==
    [i \in DOMAIN urls |->
        [clustered |-> FALSE, cluster_data |-> ClusterData(NULL, <<>>),
         articles_data |-> <<urls[i]>>]]

process_newscatcher_response(api_response) ==
    IF ~api_response.ok THEN <<>>
    ELSE IF api_response.clustered /\ api_response.clusters # <<>>
         THEN ProcessClusters(api_response.clusters)
         ELSE Unclustered(ProcessGated(api_response.articles))

ResultLinks(res) ==
    Links(res.articles) \cup UNION {Links(res.clusters[i].articles) : i \in DOMAIN res.clusters}

\* ---------------------------------------------------------------- the feed
\* a variant of Groups whose one group keeps the first article only
Groups_FirstOnly(clean, one) ==
    IF clean = <<>> THEN <<>>
    ELSE IF one THEN <<<<clean[1]>>>>
    ELSE [i \in DOMAIN clean |-> <<clean[i]>>]

\* VectorProcessor.cluster_articles, or the singleton fallback: the groups are
\* a split of the clean articles.  one says whether the clusterer puts two
\* articles in one group.
Groups(clean, one) ==
    IF clean = <<>> THEN <<>>
    ELSE IF one THEN <<clean>>
    ELSE [i \in DOMAIN clean |-> <<clean[i]>>]

\* The ways the clean articles can be split: fewer than two articles leave
\* one choice
Splits(clean) == IF Len(clean) > 1 THEN BOOLEAN ELSE {FALSE}

\* DataProcessor.process_google_articles_clustered: the cluster id is
\* md5(person_title) of the group's first article; ids gives it per group
process_google_articles_clustered(found, one, ids) ==
    LET groups == Groups(ProcessGated(found), one)
    IN  [i \in DOMAIN groups |->
            [clustered |-> TRUE,
             cluster_data |-> ClusterData(ids[i], groups[i]),
             articles_data |-> groups[i]]]

\* ---------------------------------------------------------------- what the sources answer
\* What a step gets from its source, after the processor: the links the source
\* returned and the processed items.  Answers that differ in neither are one.
ApiAnswers ==
    {[links |-> ResultLinks(result), processed |-> process_newscatcher_response(result)] :
        result \in ApiResults}

FeedAnswersOf(found) ==
    UNION {{[links |-> Links(found),
             processed |-> process_google_articles_clustered(found, one, ids)] :
                ids \in [DOMAIN Groups(ProcessGated(found), one) -> ClusterIds]} :
           one \in Splits(ProcessGated(found))}

FeedAnswers == UNION {FeedAnswersOf(found) : found \in ItemLists}

\* the feed answers on which the clusterer is called, and so can raise
FeedRaising == {Links(found) : found \in {f \in ItemLists : ProcessGated(f) # <<>>}}

NewsdataAnswers ==
    {[links |-> Links(found), processed |-> ProcessNewsdata(found)] : found \in ItemLists}

\* ---------------------------------------------------------------- the steps
\* Each step binds the outcome r of its store calls once.
Added(db) == {db.articles[i].url : i \in DOMAIN db.articles}
                \ {articles[i].url : i \in DOMAIN articles}

Stored(r) ==
    /\ articles' = r.db.articles
    /\ clusters' = r.db.clusters
    /\ UNCHANGED <<now, last, srch, gate, ing, norm, run, txn, rss>>

\* a variant of Following in which the simple search comes before the feed
Following_SearchFirst(step, more) ==
    CASE step = "newscatcher" -> "newsdata"
      [] step = "newsdata" -> "rss_en"
      [] step = "rss_en" -> "rss_hi"
      [] step = "rss_hi" -> IF more THEN "newscatcher" ELSE "cleanup"
      [] step = "cleanup" -> "report"
      [] step = "report" -> "stats"
      [] OTHER -> "done"

\* The statement that follows a step in run_news_collection; more says whether
\* people_to_track has a further entry
Following(step, more) ==
    CASE step = "newscatcher" -> "rss_en"
      [] step = "rss_en" -> "rss_hi"
      [] step = "rss_hi" -> "newsdata"
      [] step = "newsdata" -> IF more THEN "newscatcher" ELSE "cleanup"
      [] step = "cleanup" -> "report"
      [] step = "report" -> "stats"
      [] OTHER -> "done"

\* a variant of Caught in which the exception ends the cycle, as the except
\* clause of run_news_collection would
Caught_Propagated(next) == "done"

\* An exception raised inside a _collect_ method is caught by the method's own
\* except clause: the method returns and the caller goes on with next
Caught(next) == next

\* "except Exception as e: ... return 0" of a _collect_ method
ReturnOnRaise(new_count) == 0

Invoked(step, person) == [step |-> step, person |-> person]

StartCycle ==
    /\ cyc.pc \in {"idle", "done"}
    /\ cyc.n < MaxCycles
    /\ now' = now + 1
    /\ cyc' = [NoCycle EXCEPT !.n = cyc.n + 1, !.pc = "newscatcher", !.person = 1,
                              !.reports = cyc.reports, !.prev_added = cyc.added]
    /\ UNCHANGED <<articles, clusters, last, srch, gate, ing, norm, run, txn, rss>>

\* NewsScheduler._collect_newscatcher
CollectNewscatcher ==
    /\ cyc.pc = "newscatcher"
    /\ \E result \in ApiAnswers, fail \in Fails :
       \E r \in {StoreItems(DB(articles, clusters), now, result.processed, fail, FALSE)} :
            /\ Stored(r)
            /\ cyc' = [cyc EXCEPT !.pc = Following("newscatcher", FALSE),
                                  !.trace = Append(@, Invoked("newscatcher", cyc.person)),
                                  !.new_articles = r.count,
                                  !.again = @ \cup (result.links \cap cyc.prev_added),
                                  !.added = @ \cup Added(r.db)]

\* NewsScheduler._collect_google_rss, one pass of "for lang in ['en', 'hi']".
\* The first disjunct is a pass in which nothing raises.  The second is a pass
\* in which the clustering of the clean articles raises (cluster_articles has
\* no except clause around encode): the method's except clause returns 0,
\* whatever the 'en' pass had counted, and the 'hi' pass is not made.
CollectGoogleRss(lang) ==
    /\ cyc.pc = lang
    /\ LET trace == IF lang = "rss_en" THEN Append(cyc.trace, Invoked("feed", cyc.person))
                    ELSE cyc.trace
       IN
       \/ \E found \in FeedAnswers, fail \in Fails :
          \E r \in {StoreItems(DB(articles, clusters), now, found.processed, fail, TRUE)} :
           LET new_count == cyc.rss_count + r.count
               next == Following(lang, FALSE)
           IN  /\ Stored(r)
               /\ cyc' = [cyc EXCEPT !.pc = next,
                                     !.trace = trace,
                                     !.rss_count = IF next = "rss_hi" THEN new_count ELSE 0,
                                     !.new_articles = IF next = "rss_hi" THEN @ ELSE @ + new_count,
                                     !.again = @ \cup (found.links \cap cyc.prev_added),
                                     !.added = @ \cup Added(r.db)]
       \/ \E links \in FeedRaising :
           /\ cyc' = [cyc EXCEPT !.pc = Caught(Following("rss_hi", FALSE)),
                                 !.trace = trace,
                                 !.rss_count = 0,
                                 !.new_articles = @ + ReturnOnRaise(cyc.rss_count),
                                 !.again = @ \cup (links \cap cyc.prev_added)]
           /\ UNCHANGED <<articles, clusters, now, last, srch, gate, ing, norm, run, txn, rss>>

CollectGoogleRssEn == CollectGoogleRss("rss_en")

CollectGoogleRssHi == CollectGoogleRss("rss_hi")

\* NewsScheduler._collect_newsdata, then the end of the loop body for one person
CollectNewsdata ==
    /\ cyc.pc = "newsdata"
    /\ \E found \in NewsdataAnswers :
       \E fail \in IF ConstructorRaises("newsdata_io") THEN {1} ELSE Fails :
       \E r \in {AddStandalone(DB(articles, clusters), now, found.processed, fail)} :
        LET new_articles == cyc.new_articles + r.count
            more == cyc.person < NumPersons
        IN  /\ Stored(r)
            /\ cyc' = [cyc EXCEPT !.pc = Following("newsdata", more),
                                  !.trace = Append(@, Invoked("newsdata", cyc.person)),
                                  !.person = IF more THEN @ + 1 ELSE @,
                                  !.new_articles = 0,
                                  !.total_new = @ + new_articles,
                                  !.again = @ \cup (found.links \cap cyc.prev_added),
                                  !.added = @ \cup Added(r.db)]

\* self.db.cleanup_old_data(Config.DAYS_TO_KEEP)
Cleanup ==
    /\ cyc.pc = "cleanup"
    /\ \E fail \in Fails :
       \E r \in {cleanup_old_data(DB(articles, clusters), now, DAYS_TO_KEEP, fail)} :
            /\ Stored(r)
            /\ cyc' = [cyc EXCEPT !.pc = Following("cleanup", FALSE),
                                  !.trace = Append(@, Invoked("cleanup", 0))]

\* "if total_new > 0: self.reporter.generate_daily_report()"
Report ==
    /\ cyc.pc = "report"
    /\ cyc' = [cyc EXCEPT !.pc = Following("report", FALSE),
                          !.reports = IF cyc.total_new > 0 THEN 1 ELSE 0,
                          !.trace = IF cyc.total_new > 0
                                    THEN Append(@, Invoked("report", 0)) ELSE @]
    /\ UNCHANGED <<articles, clusters, now, last, srch, gate, ing, norm, run, txn, rss>>

\* "stats = self.db.get_statistics()"
Statistics ==
    /\ cyc.pc = "stats"
    /\ cyc' = [cyc EXCEPT !.pc = Following("stats", FALSE),
                          !.trace = Append(@, Invoked("stats", 0))]
    /\ UNCHANGED <<articles, clusters, now, last, srch, gate, ing, norm, run, txn, rss>>

CycleNext ==
    \/ StartCycle
    \/ CollectNewscatcher
    \/ CollectGoogleRssEn
    \/ CollectGoogleRssHi
    \/ CollectNewsdata
    \/ Cleanup
    \/ Report
    \/ Statistics

CycleSpec == Init /\ [][CycleNext]_vars

\* ================================================================ the clustering API client
\* NewsCatcherClient.search, one action per answer to a request: each action is
\* one pass of "for attempt in range(retry_count)", from the request to the
\* continue, return or break that ends the pass, and, when the pass was the
\* last, the "return None" after the loop.

\* retry_count, the default of the parameter, which every caller uses
retry_count == 3

\* the wait when a 429 answer has no Retry-After header
DefaultRetryAfter == 60

\* the largest number of seconds a Retry-After header holds
MaxRetryAfter == 2

\* A Retry-After header: absent, a number of seconds, or an HTTP date
RetryAfterHeaders ==
    {[kind |-> "absent", secs |-> 0], [kind |-> "date", secs |-> 0]}
    \cup {[kind |-> "seconds", secs |-> n] : n \in 0..MaxRetryAfter}

NoHeader == [kind |-> "absent", secs |-> 0]

\* What a request meets: an HTTP answer (status, Retry-After header, the
\* parsed body), or an exception of requests.post or of the parsing of the answer.
\* Status "500" stands for every status on which raise_for_status raises.
Answer(status, retry_after, body) ==
    [status |-> status, retry_after |-> retry_after, body |-> body]

\* response.json() of a 200 answer: what the keys 'clusters' and 'articles'
\* hold; each is absent or empty, or holds one entry
OneCluster == <<[cluster_id |-> "X", articles |-> <<[link |-> "u1", gate |-> "accept"]>>]>>
OneArticle == <<[link |-> "u2", gate |-> "accept"]>>

Data(clusters_, articles_) == [clusters |-> clusters_, articles |-> articles_]

Bodies == {Data(c, a) : c \in {<<>>, OneCluster}, a \in {<<>>, OneArticle}}

\* the body of an answer that is not parsed
NoBody == Data(<<>>, <<>>)

\* a variant of search_result that tags by what 'articles' holds
search_result_TagByArticles(data) ==
    IF data.articles = <<>>
    THEN [ok |-> TRUE, clustered |-> TRUE, clusters |-> data.clusters,
          articles |-> data.articles]
    ELSE [ok |-> TRUE, clustered |-> FALSE, clusters |-> <<>>, articles |-> data.articles]

\* "if clusters: ... elif articles: ... else: ...": the dict search returns
\* for a parsed 200 answer
search_result(data) ==
    IF data.clusters # <<>>
    THEN [ok |-> TRUE, clustered |-> TRUE, clusters |-> data.clusters,
          articles |-> data.articles]
    ELSE IF data.articles # <<>>
    THEN [ok |-> TRUE, clustered |-> FALSE, clusters |-> <<>>, articles |-> data.articles]
    ELSE [ok |-> TRUE, clustered |-> FALSE, clusters |-> <<>>, articles |-> <<>>]

SearchResults == {search_result(data) : data \in Bodies}

\* the entries of the log
LogEntry(ev, attempt, clustering, answer, secs, result) ==
    [ev |-> ev, attempt |-> attempt, clustering |-> clustering, answer |-> answer,
     secs |-> secs, result |-> result]

NoAnswer == Answer("", NoHeader, NoBody)

Requested(s) == LogEntry("request", s.attempt, s.clustering_enabled, NoAnswer, 0, NoResult)
Answered(s, a) == LogEntry("answer", s.attempt, s.clustering_enabled, a, 0, NoResult)
Slept(s, secs) == LogEntry("sleep", s.attempt, s.clustering_enabled, NoAnswer, secs, NoResult)
ReturnedResult(s, result) ==
    LogEntry("return", s.attempt, s.clustering_enabled, NoAnswer, 0, result)

\* "return ..." inside the loop, and "break" followed by the "return None"
\* after the loop
Return(s, log, result) ==
    [s EXCEPT !.pc = "returned", !.log = log \o <<ReturnedResult(s, result)>>]

\* a variant of Continue in which a pass does not use up an attempt
Continue_NoCount(s, log, clustering) ==
    [s EXCEPT !.clustering_enabled = clustering, !.log = log]

\* "continue", and the fall out of an except clause: the next pass if there is
\* one, else the "return None" after the loop
Continue(s, log, clustering) ==
    IF s.attempt + 1 < retry_count
    THEN [s EXCEPT !.attempt = s.attempt + 1, !.clustering_enabled = clustering,
                   !.log = log]
    ELSE Return(s, log, NoResult)

\* a variant of On429 that retries at once
On429_NoSleep(s, log, a) ==
    Continue(s, log, s.clustering_enabled)

\* status 429: int(Retry-After or 60), sleep, continue; int() of a date raises
\* ValueError, which the last except clause turns into break
On429(s, log, a) ==
    IF a.retry_after.kind = "date" THEN Return(s, log, NoResult)
    ELSE LET wait_time == IF a.retry_after.kind = "absent" THEN DefaultRetryAfter
                          ELSE a.retry_after.secs
         IN  Continue(s, log \o <<Slept(s, wait_time)>>, s.clustering_enabled)

\* a variant of On401 that goes on to the next attempt
On401_Retry(s, log) ==
    Continue(s, log, s.clustering_enabled)

\* status 401: return None
On401(s, log) ==
    Return(s, log, NoResult)

\* status 403: clustering is switched off in the payload, continue
On403(s, log) ==
    Continue(s, log, FALSE)

\* a variant of Backoff that grows by one second per attempt
Backoff_Linear(attempt) == attempt + 1

\* time.sleep(2 ** attempt)
Backoff(attempt) == 2 ^ attempt

\* Timeout and RequestException (raise_for_status raises one): sleep, next pass
OnTransient(s, log) ==
    Continue(s, log \o <<Slept(s, Backoff(s.attempt))>>, s.clustering_enabled)

\* any other exception: break
OnUnexpected(s, log) ==
    Return(s, log, NoResult)

\* status 200: the result is tagged by what the body holds
OnSuccess(s, log, a) ==
    Return(s, log, search_result(a.body))

\* one pass of the loop
Attempt(s, a) ==
    LET log == s.log \o <<Requested(s), Answered(s, a)>>
    IN  CASE a.status = "429" -> On429(s, log, a)
          [] a.status = "401" -> On401(s, log)
          [] a.status = "403" -> On403(s, log)
          [] a.status = "200" -> OnSuccess(s, log, a)
          [] a.status \in {"500", "timeout", "request_error"} -> OnTransient(s, log)
          [] OTHER -> OnUnexpected(s, log)

SearchIdle == UNCHANGED <<articles, clusters, now, last, cyc, gate, ing, norm, run, txn, rss>>

\* the call: the payload is built with clustering enabled
Search ==
    /\ srch.pc = "idle"
    /\ srch' = [NoSearch EXCEPT !.pc = "loop"]
    /\ SearchIdle

Pass(a) ==
    /\ srch.pc = "loop"
    /\ srch' = Attempt(srch, a)
    /\ SearchIdle

Answer429 == \E h \in RetryAfterHeaders : Pass(Answer("429", h, NoBody))

Answer401 == Pass(Answer("401", NoHeader, NoBody))

Answer403 == Pass(Answer("403", NoHeader, NoBody))

Answer200 == \E body \in Bodies : Pass(Answer("200", NoHeader, body))

AnswerErrorStatus == Pass(Answer("500", NoHeader, NoBody))

Timeout == Pass(Answer("timeout", NoHeader, NoBody))

RequestException == Pass(Answer("request_error", NoHeader, NoBody))

UnexpectedError == Pass(Answer("unexpected", NoHeader, NoBody))

SearchNext ==
    \/ Search
    \/ Answer429
    \/ Answer401
    \/ Answer403
    \/ Answer200
    \/ AnswerErrorStatus
    \/ Timeout
    \/ RequestException
    \/ UnexpectedError

SearchSpec == Init /\ [][SearchNext]_vars

\* ================================================================ the relevance gate
\* EntityRecognizer.verify_person.  A string is the sequence of its characters.
\* The entities are what the NER pipeline extracted from the text, a sequence
\* of (text, label) pairs; the pipeline itself is outside the model.

\* str.lower, on the letters that the strings of the model use
LowerChar(c) ==
    CASE c = "A" -> "a" [] c = "B" -> "b" [] c = "C" -> "c" [] c = "D" -> "d" [] c = "E" -> "e"
      [] c = "F" -> "f" [] c = "G" -> "g" [] c = "H" -> "h" [] c = "I" -> "i" [] c = "J" -> "j"
      [] c = "K" -> "k" [] c = "L" -> "l" [] c = "M" -> "m" [] c = "N" -> "n" [] c = "O" -> "o"
      [] c = "P" -> "p" [] c = "Q" -> "q" [] c = "R" -> "r" [] c = "S" -> "s" [] c = "T" -> "t"
      [] c = "U" -> "u" [] c = "V" -> "v" [] c = "W" -> "w" [] c = "X" -> "x" [] c = "Y" -> "y"
      [] c = "Z" -> "z"
      [] OTHER -> c

\* a variant of lower that leaves the case as it is
lower_Identity(str) == str

lower(str) == [i \in DOMAIN str |-> LowerChar(str[i])]

\* str.split(): the runs of characters between whitespace, empty runs dropped
RECURSIVE SplitFrom(_, _)
SplitFrom(str, part) ==
    IF str = <<>> THEN (IF part = <<>> THEN <<>> ELSE <<part>>)
    ELSE IF Head(str) = " "
         THEN (IF part = <<>> THEN <<>> ELSE <<part>>) \o SplitFrom(Tail(str), <<>>)
         ELSE SplitFrom(Tail(str), Append(part, Head(str)))

split(str) == SplitFrom(str, <<>>)

\* "part in ent_text_lower": part is a substring
In(part, str) ==
    \E k \in 0..(Len(str) - Len(part)) : SubSeq(str, k + 1, k + Len(part)) = part

\* a variant of verify_person that accepts an entity of any label
verify_person_AnyLabel(text, ents, person_name) ==
    IF text = <<>> THEN FALSE
    ELSE LET target_parts == split(lower(person_name))
         IN  \E e \in DOMAIN ents :
                 \E p \in DOMAIN target_parts :
                     /\ Len(target_parts[p]) > 2
                     /\ In(target_parts[p], lower(ents[e].text))

verify_person(text, ents, person_name) ==
    IF text = <<>> THEN FALSE
    ELSE LET target_parts == split(lower(person_name))
         IN  \E e \in DOMAIN ents :
                 /\ ents[e].label = "PERSON"
                 /\ \E p \in DOMAIN target_parts :
                        /\ Len(target_parts[p]) > 2
                        /\ In(target_parts[p], lower(ents[e].text))

\* ---------------------------------------------------------------- its inputs
NarendraModi == <<"N", "a", "r", "e", "n", "d", "r", "a", " ", "M", "o", "d", "i">>
CRPatil == <<"C", "R", " ", "P", "a", "t", "i", "l">>
PMModi == <<"P", "M", " ", "M", "o", "d", "i">>
MODI == <<"M", "O", "D", "I">>
ModiToys == <<"M", "o", "d", "i", " ", "T", "o", "y", "s">>
CR == <<"C", "R">>
Patil == <<"P", "a", "t", "i", "l">>
Rahul == <<"R", "a", "h", "u", "l">>

\* the tracked names (people_to_track)
PersonNames == {NarendraModi, CRPatil}

EntityTexts == {PMModi, MODI, ModiToys, CR, Patil, Rahul}
Labels == {"PERSON", "ORG", "GPE"}
Entities == [text : EntityTexts, label : Labels]

\* the largest number of entities in a text
MaxEnts == 2

EntityLists == UNION {[1..n -> Entities] : n \in 0..MaxEnts}

\* the empty text and a text that is not empty
Texts == {<<>>, PMModi}

GateIdle == UNCHANGED <<articles, clusters, now, last, cyc, srch, ing, norm, run, txn, rss>>

GateInit ==
    /\ articles = <<>>
    /\ clusters = {}
    /\ now = 0
    /\ last = NoCall
    /\ cyc = NoCycle
    /\ srch = NoSearch
    /\ ing = NoIngest
    /\ norm = NoNorm
    /\ run = NoRun
    /\ txn = NoTxn
    /\ rss = NoFeed
    /\ \E text \in Texts, ents \in EntityLists, person_name \in PersonNames :
         gate = [NoGate EXCEPT !.pc = "called", !.text = text, !.ents = ents,
                               !.person_name = person_name]

VerifyPerson ==
    /\ gate.pc = "called"
    /\ gate' = [gate EXCEPT !.pc = "returned",
                            !.ret = verify_person(gate.text, gate.ents, gate.person_name)]
    /\ GateIdle

GateNext == VerifyPerson

GateSpec == GateInit /\ [][GateNext]_vars

\* ================================================================ construction and ingestion
\* main constructs NewsScheduler, whose __init__ constructs DataProcessor; a
\* running process then visits the tracked persons in the order of the
\* scheduler's loop and ingests what one source answers for each.  Each
\* ingestion action is one _collect_ method (for the feed, one pass of its
\* language loop) and records in ing.step what the step was given and what it
\* did.

\* the longest item list a source returns to an ingestion step
MaxFound == 2

FoundLists == UNION {[1..n -> RawItems] : n \in 0..MaxFound}

\* the links of the items that the gate accepted
AcceptedLinks(items) ==
    {items[i].link : i \in {j \in DOMAIN items : items[j].gate = "accept"}} \ {NoLink}

\* the links of the items on which the gate raised
RaisingLinks(items) ==
    {items[i].link : i \in {j \in DOMAIN items : items[j].gate = "raise"}} \ {NoLink}

HasLinkless(items) == \E i \in DOMAIN items : items[i].link = NoLink

\* DataProcessor.__init__: self.ner = EntityRecognizer() stands outside the
\* try, so its exception leaves __init__; VectorProcessor() stands inside, and
\* its exception leaves self.vp = None
DataProcessorInit(ner_loads, vp_loads) ==
    IF ~ner_loads THEN [raised |-> TRUE, vp |-> FALSE]
    ELSE [raised |-> FALSE, vp |-> vp_loads]

\* main: an exception of NewsScheduler() reaches "except Exception", which
\* logs it and calls sys.exit(1)
Construct ==
    /\ ing.proc = "starting"
    /\ \E ner_loads \in BOOLEAN, vp_loads \in BOOLEAN :
        LET processor == DataProcessorInit(ner_loads, vp_loads)
        IN  ing' = [ing EXCEPT !.proc = IF processor.raised THEN "exited" ELSE "running",
                               !.ner = ner_loads,
                               !.vp = processor.vp]
    /\ UNCHANGED <<articles, clusters, now, last, cyc, srch, gate, norm, run, txn, rss>>

\* a variant of VpSplits that calls the clusterer whether it is loaded or not
VpSplits_Always(vp, clean) == Splits(clean)

\* "if self.vp: clusters = self.vp.cluster_articles(...) else: clusters =
\* [[art] for art in clean_articles]": without the clusterer every article is
\* its own group
VpSplits(vp, clean) == IF vp THEN Splits(clean) ELSE {FALSE}

\* What a step is given, after the processor: how the answer is tagged, the
\* raw items (how many; their links the gate accepted, or for the simple
\* search, which has no gate, the links of all of them; the links the gate
\* raised on; whether one had no link), the normalised articles in order, and
\* the processed items
StepInput(tag, found, gated, clean, processed, raised) ==
    [tag |-> tag, n_found |-> Len(found),
     accepted |-> IF gated THEN AcceptedLinks(found) ELSE Links(found),
     raising |-> IF gated THEN RaisingLinks(found) ELSE {},
     linkless |-> HasLinkless(found), clean |-> clean,
     processed |-> processed, raised |-> raised]

IngestApiResults ==
    {NoResult}
    \cup {[ok |-> TRUE, clustered |-> FALSE, clusters |-> <<>>, articles |-> a] :
            a \in FoundLists}
    \cup {[ok |-> TRUE, clustered |-> TRUE,
           clusters |-> <<[cluster_id |-> id, articles |-> a]>>, articles |-> <<>>] :
            id \in ClusterIds, a \in FoundLists \ {<<>>}}

\* the raw items of a result: those of its clusters when it is tagged
\* clustered, else its flat articles
ResultItems(result) ==
    IF result.clustered THEN result.clusters[1].articles ELSE result.articles

\* "if api_response.get('clustered') and clusters" decides on the tag of the answer
ResultTag(result) ==
    IF ~result.ok THEN "none" ELSE IF result.clustered THEN "clustered" ELSE "flat"

IngestApiInputs ==
    {StepInput(ResultTag(result), ResultItems(result), TRUE,
               ProcessGated(ResultItems(result)),
               process_newscatcher_response(result), FALSE) :
        result \in IngestApiResults}

FeedInputsOf(vp, found) ==
    UNION {{StepInput("feed", found, TRUE, ProcessGated(found),
                      process_google_articles_clustered(found, one, ids), FALSE) :
                ids \in [DOMAIN Groups(ProcessGated(found), one) -> ClusterIds]} :
           one \in VpSplits(vp, ProcessGated(found))}

\* with the clusterer loaded a pass may also raise inside cluster_articles
FeedRaisingInputs ==
    {StepInput("feed", found, TRUE, ProcessGated(found), <<>>, TRUE) :
        found \in {f \in FoundLists : ProcessGated(f) # <<>>}}

FeedInputsVp == UNION {FeedInputsOf(TRUE, found) : found \in FoundLists} \cup FeedRaisingInputs

FeedInputsNoVp == UNION {FeedInputsOf(FALSE, found) : found \in FoundLists}

NewsdataInputs ==
    {StepInput("search", found, FALSE, ProcessNewsdata(found),
               Unclustered(ProcessNewsdata(found)), FALSE) :
        found \in FoundLists}

\* The step has run: the tables are as the store calls left them, and the
\* rows the step inserted carry its person in person_tracked
Ingested(source, person, input, fail, r) ==
    /\ articles' = r.db.articles
    /\ clusters' = r.db.clusters
    /\ ing' = [ing EXCEPT
            !.n = @ + 1,
            !.person_tracked = [u \in Urls |-> IF u \in Added(r.db) THEN person ELSE @[u]],
            !.cluster_person =
                [id \in ClusterIds |->
                    IF ClusterExists(r.db.clusters, id) /\ ~ClusterExists(clusters, id)
                    THEN person ELSE @[id]],
            !.step = [source |-> source, person |-> person, tag |-> input.tag,
                      n_found |-> input.n_found, accepted |-> input.accepted,
                      raising |-> input.raising, linkless |-> input.linkless, clean |-> input.clean,
                      processed |-> input.processed, fail |-> fail,
                      pre |-> DB(articles, clusters), count |-> r.count]]
    /\ UNCHANGED <<now, last, cyc, srch, gate, norm, run, txn, rss>>

\* "for person in self.persons": the person whose turn it is
NextPerson == ing.n + 1

CanIngest ==
    /\ ing.proc = "running"
    /\ ing.n < NumPersons

\* NewsScheduler._collect_newscatcher
IngestNewscatcher ==
    /\ CanIngest
    /\ \E person \in {NextPerson}, input \in IngestApiInputs, fail \in Fails :
       \E r \in {StoreItems(DB(articles, clusters), now, input.processed, fail, FALSE)} :
            Ingested("newscatcher", person, input, fail, r)

\* cluster_id = md5(person_name + "_" + title): the identity of a feed
\* cluster is derived from the person, so it is none that a cluster of another
\* person has
FeedIdsOf(person, processed) ==
    \A i \in DOMAIN processed :
        LET id == processed[i].cluster_data.id
        IN  ClusterExists(clusters, id) => ing.cluster_person[id] = person

\* NewsScheduler._collect_google_rss, one pass; a pass that raises stores nothing
\* and the method returns 0
IngestFeed ==
    /\ CanIngest
    /\ \E person \in {NextPerson}, fail \in Fails :
       \E input \in {f \in IF ing.vp THEN FeedInputsVp ELSE FeedInputsNoVp :
                        FeedIdsOf(person, f.processed)} :
       \E r \in {IF input.raised
                 THEN [db |-> DB(articles, clusters), count |-> ReturnOnRaise(0)]
                 ELSE StoreItems(DB(articles, clusters), now, input.processed, fail, TRUE)} :
            Ingested(IF input.raised THEN "google_rss_raised" ELSE "google_rss",
                     person, input, fail, r)

\* NewsScheduler._collect_newsdata
IngestNewsdata ==
    /\ CanIngest
    /\ \E person \in {NextPerson}, input \in NewsdataInputs :
       \E fail \in IF ConstructorRaises("newsdata_io") THEN {1} ELSE Fails :
       \E r \in {AddStandalone(DB(articles, clusters), now, input.clean, fail)} :
            Ingested("newsdata_io", person, input, fail, r)

IngestNext ==
    \/ Construct
    \/ IngestNewscatcher
    \/ IngestFeed
    \/ IngestNewsdata

IngestSpec == Init /\ [][IngestNext]_vars

\* ================================================================ normalisation
\* The pure functions of the processor, applied to inputs drawn at the start:
\* _categorize_text to a title, _parse_date to a published-date value, alone
\* and inside the two callers that build an Article and a cluster descriptor.

\* the most words in a title
MaxWords == 2

\* CATEGORY_KEYWORDS, in the order of the dict literal (the order in which
\* .items() iterates)
CATEGORY_KEYWORDS == <<
    [category |-> "Politics",
     keywords |-> <<
        <<"e", "l", "e", "c", "t", "i", "o", "n">>,
        <<"p", "a", "r", "l", "i", "a", "m", "e", "n", "t">>, <<"b", "j", "p">>,
        <<"c", "o", "n", "g", "r", "e", "s", "s">>, <<"p", "a", "r", "t", "y">>,
        <<"v", "o", "t", "e">>, <<"c", "a", "m", "p", "a", "i", "g", "n">>,
        <<"p", "o", "l", "i", "t", "i", "c", "a", "l">>,
        <<"m", "i", "n", "i", "s", "t", "e", "r">>,
        <<"o", "p", "p", "o", "s", "i", "t", "i", "o", "n">>,
        <<"l", "o", "k", " ", "s", "a", "b", "h", "a">>,
        <<"r", "a", "j", "y", "a", " ", "s", "a", "b", "h", "a">>>>],
    [category |-> "Governance",
     keywords |-> <<
        <<"p", "o", "l", "i", "c", "y">>, <<"s", "c", "h", "e", "m", "e">>,
        <<"g", "o", "v", "e", "r", "n", "m", "e", "n", "t">>,
        <<"c", "a", "b", "i", "n", "e", "t">>, <<"o", "r", "d", "i", "n", "a", "n", "c", "e">>,
        <<"b", "i", "l", "l">>, <<"r", "e", "f", "o", "r", "m">>,
        <<"a", "d", "m", "i", "n", "i", "s", "t", "r", "a", "t", "i", "o", "n">>,
        <<"g", "o", "v", "e", "r", "n", "a", "n", "c", "e">>,
        <<"m", "i", "n", "i", "s", "t", "r", "y">>>>],
    [category |-> "Economy",
     keywords |-> <<
        <<"g", "d", "p">>, <<"e", "c", "o", "n", "o", "m", "y">>,
        <<"b", "u", "d", "g", "e", "t">>, <<"t", "a", "x">>,
        <<"f", "i", "n", "a", "n", "c", "e">>, <<"t", "r", "a", "d", "e">>,
        <<"i", "n", "v", "e", "s", "t", "m", "e", "n", "t">>, <<"f", "i", "s", "c", "a", "l">>,
        <<"i", "n", "f", "l", "a", "t", "i", "o", "n">>, <<"r", "b", "i">>,
        <<"m", "a", "r", "k", "e", "t">>>>],
    [category |-> "Infrastructure",
     keywords |-> <<
        <<"r", "o", "a", "d">>, <<"h", "i", "g", "h", "w", "a", "y">>,
        <<"b", "r", "i", "d", "g", "e">>, <<"r", "a", "i", "l", "w", "a", "y">>,
        <<"m", "e", "t", "r", "o">>, <<"a", "i", "r", "p", "o", "r", "t">>,
        <<"p", "o", "r", "t">>, <<"c", "o", "n", "s", "t", "r", "u", "c", "t", "i", "o", "n">>,
        <<"i", "n", "a", "u", "g", "u", "r", "a", "t", "e">>,
        <<"p", "r", "o", "j", "e", "c", "t">>,
        <<"s", "m", "a", "r", "t", " ", "c", "i", "t", "y">>>>],
    [category |-> "Diplomacy",
     keywords |-> <<
        <<"s", "u", "m", "m", "i", "t">>, <<"b", "i", "l", "a", "t", "e", "r", "a", "l">>,
        <<"f", "o", "r", "e", "i", "g", "n">>,
        <<"a", "m", "b", "a", "s", "s", "a", "d", "o", "r">>,
        <<"d", "i", "p", "l", "o", "m", "a", "t", "i", "c">>, <<"t", "r", "e", "a", "t", "y">>,
        <<"g", "2", "0">>, <<"u", "n">>, <<"n", "a", "t", "o">>, <<"b", "r", "i", "c", "s">>,
        <<"q", "u", "a", "d">>>>],
    [category |-> "Defence",
     keywords |-> <<
        <<"a", "r", "m", "y">>, <<"n", "a", "v", "y">>,
        <<"a", "i", "r", "f", "o", "r", "c", "e">>, <<"m", "i", "l", "i", "t", "a", "r", "y">>,
        <<"d", "e", "f", "e", "n", "c", "e">>, <<"d", "e", "f", "e", "n", "s", "e">>,
        <<"w", "e", "a", "p", "o", "n">>, <<"b", "o", "r", "d", "e", "r">>,
        <<"s", "e", "c", "u", "r", "i", "t", "y">>, <<"s", "o", "l", "d", "i", "e", "r">>>>],
    [category |-> "Technology",
     keywords |-> <<
        <<"d", "i", "g", "i", "t", "a", "l">>, <<"t", "e", "c", "h">>,
        <<"s", "t", "a", "r", "t", "u", "p">>,
        <<"i", "n", "n", "o", "v", "a", "t", "i", "o", "n">>, <<"a", "i">>,
        <<"c", "y", "b", "e", "r">>, <<"s", "p", "a", "c", "e">>, <<"i", "s", "r", "o">>,
        <<"s", "a", "t", "e", "l", "l", "i", "t", "e">>,
        <<"i", "n", "t", "e", "r", "n", "e", "t">>>>],
    [category |-> "Social",
     keywords |-> <<
        <<"e", "d", "u", "c", "a", "t", "i", "o", "n">>, <<"h", "e", "a", "l", "t", "h">>,
        <<"h", "o", "s", "p", "i", "t", "a", "l">>, <<"s", "c", "h", "o", "o", "l">>,
        <<"u", "n", "i", "v", "e", "r", "s", "i", "t", "y">>,
        <<"p", "o", "v", "e", "r", "t", "y">>, <<"w", "e", "l", "f", "a", "r", "e">>,
        <<"w", "o", "m", "e", "n">>, <<"f", "a", "r", "m", "e", "r">>,
        <<"r", "u", "r", "a", "l">>>>],
    [category |-> "Event",
     keywords |-> <<
        <<"r", "a", "l", "l", "y">>, <<"s", "p", "e", "e", "c", "h">>,
        <<"c", "o", "n", "f", "e", "r", "e", "n", "c", "e">>, <<"v", "i", "s", "i", "t">>,
        <<"i", "n", "a", "u", "g", "u", "r", "a", "t", "i", "o", "n">>,
        <<"c", "e", "r", "e", "m", "o", "n", "y">>, <<"m", "e", "e", "t", "i", "n", "g">>,
        <<"a", "d", "d", "r", "e", "s", "s">>, <<"f", "u", "n", "c", "t", "i", "o", "n">>>>]>>

\* the words titles are made of
Words == {
    <<"E", "l", "e", "c", "t", "i", "o", "n">>, <<"B", "U", "D", "G", "E", "T">>,
    <<"r", "a", "i", "n">>, <<"S", "u", "n", "d", "a", "y">>, <<"R", "e", "p", "o", "r", "t">>,
    <<"v", "i", "s", "i", "t">>, <<"C", "r", "i", "c", "k", "e", "t">>, <<"L", "o", "k">>,
    <<"S", "a", "b", "h", "a">>, <<"s", "c", "h", "o", "o", "l">>, <<"A", "r", "m", "y">>,
    <<"p", "o", "l", "i", "c", "y">>}

RECURSIVE Join(_)
Join(ws) ==
    IF ws = <<>> THEN <<>>
    ELSE IF Len(ws) = 1 THEN ws[1]
    ELSE ws[1] \o <<" ">> \o Join(Tail(ws))

Titles == {Join(ws) : ws \in UNION {[1..n -> Words] : n \in 0..MaxWords}}

\* "any(keyword in text_lower for keyword in keywords)"
AnyKeyword(keywords, text_lower) ==
    \E k \in DOMAIN keywords : In(keywords[k], text_lower)

\* DataProcessor._categorize_text
_categorize_text(text) ==
    IF text = <<>> THEN "Other"
    ELSE LET text_lower == lower(text)
             hits == {c \in DOMAIN CATEGORY_KEYWORDS :
                        AnyKeyword(CATEGORY_KEYWORDS[c].keywords, text_lower)}
         IN  IF hits = {} THEN "Other"
             ELSE CATEGORY_KEYWORDS[CHOOSE c \in hits : \A d \in hits : c <= d].category

\* The formats _parse_date tries, in order
formats ==
    <<"%Y-%m-%d %H:%M:%S", "%Y-%m-%dT%H:%M:%SZ", "%Y-%m-%dT%H:%M:%S.%fZ", "%Y-%m-%d",
      "%a, %d %b %Y %H:%M:%S %Z", "%a, %d %b %Y %H:%M:%S %z">>

\* Published-date strings: one in each supported format, two in none, and
\* the empty string
DateTexts ==
    {"2024-01-15 10:30:00", "2024-01-15T10:30:00Z", "2024-01-15T10:30:00.123Z",
     "2024-01-15", "Mon, 15 Jan 2024 10:30:00 GMT", "Mon, 15 Jan 2024 10:30:00 +0530",
     "15/01/2024", "yesterday", ""}

\* A published-date value: None (the key is missing), a string, a datetime,
\* or another value (an int: 0 or an epoch, as JSON numbers arrive)
DateInputs ==
    {[type |-> "None", text |-> "None"]}
    \cup {[type |-> "str", text |-> t] : t \in DateTexts}
    \cup {[type |-> "datetime", text |-> "datetime(2024, 1, 15)"]}
    \cup {[type |-> "int", text |-> t] : t \in {"0", "1705314600"}}

\* "if not date_str": None, the empty string and 0 are false
Falsy(date_str) ==
    \/ date_str.type = "None"
    \/ date_str.type = "str" /\ date_str.text = ""
    \/ date_str.type = "int" /\ date_str.text = "0"

\* datetime.strptime(text, fmt) succeeds: the whole string matches the format
StrptimeParses(text, fmt) ==
    \/ text = "2024-01-15 10:30:00" /\ fmt = "%Y-%m-%d %H:%M:%S"
    \/ text = "2024-01-15T10:30:00Z" /\ fmt = "%Y-%m-%dT%H:%M:%SZ"
    \/ text = "2024-01-15T10:30:00.123Z" /\ fmt = "%Y-%m-%dT%H:%M:%S.%fZ"
    \/ text = "2024-01-15" /\ fmt = "%Y-%m-%d"
    \/ text = "Mon, 15 Jan 2024 10:30:00 GMT" /\ fmt = "%a, %d %b %Y %H:%M:%S %Z"
    \/ text = "Mon, 15 Jan 2024 10:30:00 +0530" /\ fmt = "%a, %d %b %Y %H:%M:%S %z"

\* what a call of _parse_date ends with: a timestamp (the current time, the
\* datetime passed in, or the one parsed with a format) or an exception
Timestamp(kind, of, fmt) == [raised |-> FALSE, kind |-> kind, of |-> of, fmt |-> fmt]

Raised(exception) == [raised |-> TRUE, kind |-> exception, of |-> "", fmt |-> ""]

\* a variant of strptime_any that answers a value that is no string with the
\* current time
strptime_any_Lenient(date_str) ==
    IF date_str.type # "str" THEN Timestamp("utcnow", "", "")
    ELSE LET ok == {i \in DOMAIN formats : StrptimeParses(date_str.text, formats[i])}
         IN  IF ok = {} THEN Timestamp("utcnow", "", "")
             ELSE Timestamp("parsed", date_str.text,
                            formats[CHOOSE i \in ok : \A j \in ok : i <= j])

\* the loop over formats: strptime raises TypeError for a value that is no
\* string, which "except ValueError" does not catch; for a string the first
\* format that parses wins, and none leaves the current time
strptime_any(date_str) ==
    IF date_str.type # "str" THEN Raised("TypeError")
    ELSE LET ok == {i \in DOMAIN formats : StrptimeParses(date_str.text, formats[i])}
         IN  IF ok = {} THEN Timestamp("utcnow", "", "")
             ELSE Timestamp("parsed", date_str.text,
                            formats[CHOOSE i \in ok : \A j \in ok : i <= j])

\* DataProcessor._parse_date
_parse_date(date_str) ==
    IF Falsy(date_str) THEN Timestamp("utcnow", "", "")
    ELSE IF date_str.type = "datetime" THEN Timestamp("same", date_str.text, "")
    ELSE strptime_any(date_str)

\* _process_single_article and process_newsdata_articles call _parse_date
\* inside the try whose except branch gives the item up
ArticleKept(published_date) == ~_parse_date(published_date).raised

\* process_newscatcher_response calls _parse_date on the first article of a
\* cluster inside the try whose except branch skips the cluster
ClusterKept(published_date) == ~_parse_date(published_date).raised

Jobs ==
    {[NoNorm EXCEPT !.pc = "ready", !.fn = "title", !.title = t] : t \in Titles}
    \cup {[NoNorm EXCEPT !.pc = "ready", !.fn = "date", !.date_str = d] : d \in DateInputs}

NormalizeInit ==
    /\ articles = <<>>
    /\ clusters = {}
    /\ now = 0
    /\ last = NoCall
    /\ cyc = NoCycle
    /\ srch = NoSearch
    /\ gate = NoGate
    /\ ing = NoIngest
    /\ norm \in Jobs
    /\ run = NoRun
    /\ txn = NoTxn
    /\ rss = NoFeed

\* a call of the function fn on the input ends in result
Applied(fn, result) ==
    /\ norm' = [norm EXCEPT !.pc = "done", !.fn = fn, !.category = result.category,
                            !.date = result.date, !.kept = result.kept]
    /\ UNCHANGED <<articles, clusters, now, last, cyc, srch, gate, ing, run, txn, rss>>

Categorize ==
    /\ norm.pc = "ready" /\ norm.fn = "title"
    /\ Applied("_categorize_text",
               [category |-> _categorize_text(norm.title), date |-> NoNorm.date, kept |-> TRUE])

ParseDate ==
    /\ norm.pc = "ready" /\ norm.fn = "date"
    /\ \E d \in {_parse_date(norm.date_str)} :
            Applied("_parse_date", [category |-> "", date |-> d, kept |-> TRUE])

NormalizeArticle ==
    /\ norm.pc = "ready" /\ norm.fn = "date"
    /\ \E d \in {_parse_date(norm.date_str)} :
            Applied("_process_single_article",
                    [category |-> "", date |-> d, kept |-> ArticleKept(norm.date_str)])

NormalizeCluster ==
    /\ norm.pc = "ready" /\ norm.fn = "date"
    /\ \E d \in {_parse_date(norm.date_str)} :
            Applied("process_newscatcher_response",
                    [category |-> "", date |-> d, kept |-> ClusterKept(norm.date_str)])

NormalizeNext ==
    \/ Categorize
    \/ ParseDate
    \/ NormalizeArticle
    \/ NormalizeCluster

NormalizeSpec == NormalizeInit /\ [][NormalizeNext]_vars

\* ================================================================ the entry points
\* main.py and scheduler_runner.py: the main thread runs the initial collection
\* itself, and scheduler.start() starts the BackgroundScheduler, whose worker
\* thread runs the cron job.  An execution of run_news_collection goes through
\* its steps one by one.

\* the most cron triggers in a run
MaxFires == 2

\* The steps of one execution: three sources per person, the cleanup, the report
CycleSteps == 3 * NumPersons + 2

\* add_job is called without max_instances, whose default lets one instance
\* of a job run at a time
max_instances == 1

EntryPoints == {"main", "scheduler_runner"}

EntryInit ==
    /\ articles = <<>>
    /\ clusters = {}
    /\ now = 0
    /\ last = NoCall
    /\ cyc = NoCycle
    /\ srch = NoSearch
    /\ gate = NoGate
    /\ ing = NoIngest
    /\ norm = NoNorm
    /\ run \in {[NoRun EXCEPT !.entry = e] : e \in EntryPoints}
    /\ txn = NoTxn
    /\ rss = NoFeed

RunIdle == UNCHANGED <<articles, clusters, now, last, cyc, srch, gate, ing, norm, txn, rss>>

\* main: scheduler.run_now() before scheduler.start()
MainRunNow ==
    /\ run.entry = "main" /\ run.pc = "boot"
    /\ run' = [run EXCEPT !.pc = "initial", !.main_step = 1]
    /\ RunIdle

\* scheduler_runner: scheduler.start() before the initial run
RunnerStart ==
    /\ run.entry = "scheduler_runner" /\ run.pc = "boot"
    /\ run' = [run EXCEPT !.pc = "started", !.started = TRUE]
    /\ RunIdle

\* scheduler_runner: scheduler.run_news_collection() in the main thread
RunnerRun ==
    /\ run.entry = "scheduler_runner" /\ run.pc = "started"
    /\ run' = [run EXCEPT !.pc = "initial", !.main_step = 1]
    /\ RunIdle

\* the main thread's execution goes on to its next step
InitialStep ==
    /\ run.pc = "initial" /\ run.main_step < CycleSteps
    /\ run' = [run EXCEPT !.main_step = @ + 1]
    /\ RunIdle

\* the initial run returns; main then calls scheduler.start(), and both
\* entry points go on to their keep-alive loop
InitialEnd ==
    /\ run.pc = "initial" /\ run.main_step = CycleSteps
    /\ run' = [run EXCEPT !.pc = "alive", !.main_step = 0, !.started = TRUE]
    /\ RunIdle

\* the cron trigger fires: the job is submitted to the worker unless
\* max_instances of it are running, in which case the run is skipped
CronFire ==
    /\ run.started /\ run.fires < MaxFires
    /\ run' = [run EXCEPT !.fires = @ + 1,
                          !.job_step = IF @ = 0 /\ max_instances > 0 THEN 1 ELSE @]
    /\ RunIdle

JobStep ==
    /\ run.job_step > 0 /\ run.job_step < CycleSteps
    /\ run' = [run EXCEPT !.job_step = @ + 1]
    /\ RunIdle

JobEnd ==
    /\ run.job_step = CycleSteps
    /\ run' = [run EXCEPT !.job_step = 0]
    /\ RunIdle

EntryNext ==
    \/ MainRunNow
    \/ RunnerStart
    \/ RunnerRun
    \/ InitialStep
    \/ InitialEnd
    \/ CronFire
    \/ JobStep
    \/ JobEnd

EntrySpec == EntryInit /\ [][EntryNext]_vars

\* ================================================================ one feed pass
\* One pass of the language loop of _collect_google_rss, stage by stage: the
\* feed client fetches and parses the items, the processor gates and
\* normalises them, the clusterer groups them, and add_cluster stores each
\* group.  Article dicts are records by key, read with get as the code does.

Languages == {"en", "hi"}

\* the title and the description of the feed item with a given link
TitleOf(link) == IF link = "u1" THEN "t1" ELSE IF link = "u2" THEN "t2" ELSE "t0"

SummaryOf(link) == IF link = "u1" THEN "s1" ELSE IF link = "u2" THEN "" ELSE "s0"

\* dict.get(key, default)
get(d, key, default) == IF key \in DOMAIN d THEN d[key] ELSE default

\* GoogleNewsClient._parse_rss: the dict of one item; gate is not a key of
\* the dict but what verify_person will answer for it
parse_rss_item(it) ==
    [title |-> TitleOf(it.link), link |-> it.link, summary |-> SummaryOf(it.link),
     language |-> "en", gate |-> it.gate]

\* GoogleNewsClient.search(query, language): the language goes into the URL
GoogleSearch(items, language) == [i \in DOMAIN items |-> parse_rss_item(items[i])]

\* DataProcessor._process_single_article for an item that is kept: the
\* canonical Article dict
CanonicalArticle(article, data_source) ==
    [title |-> get(article, "title", ""),
     content |-> get(article, "summary", ""),
     url |-> get(article, "link", ""),
     language |-> get(article, "language", "unknown"),
     data_source |-> data_source]

\* stage 1 of process_google_articles_clustered: the loop over the items
RECURSIVE CleanArticles(_)
CleanArticles(found) ==
    IF found = <<>> THEN <<>>
    ELSE LET article == Head(found)
         IN  IF article.gate = "accept" /\ get(article, "link", "") # ""
             THEN <<CanonicalArticle(article, "google_rss")>> \o CleanArticles(Tail(found))
             ELSE CleanArticles(Tail(found))

\* texts = [f"{art.get('title', '')} {art.get('summary', '')}" for art in articles]
EmbeddedTexts(articles_) ==
    [i \in DOMAIN articles_ |->
        get(articles_[i], "title", "") \o " " \o get(articles_[i], "summary", "")]

\* What fit_predict does: it labels every article, or raises ValueError;
\* "raise" is any other exception of encode or fit_predict
Fits(n) ==
    {[kind |-> "labels", labels |-> l] : l \in [1..n -> 1..n]}
    \cup {[kind |-> k, labels |-> [i \in 1..n |-> i]] : k \in {"ValueError", "raise"}}

RECURSIVE MembersFrom(_, _, _, _)
MembersFrom(articles_, labels, label, i) ==
    IF i > Len(articles_) THEN <<>>
    ELSE (IF labels[i] = label THEN <<articles_[i]>> ELSE <<>>)
         \o MembersFrom(articles_, labels, label, i + 1)

\* a variant of GroupsFrom whose groups keep their first article only
RECURSIVE GroupsFrom_FirstOnly(_, _, _, _)
GroupsFrom_FirstOnly(articles_, labels, i, seen) ==
    IF i > Len(articles_) THEN <<>>
    ELSE IF labels[i] \in seen THEN GroupsFrom_FirstOnly(articles_, labels, i + 1, seen)
    ELSE <<<<articles_[i]>>>>
         \o GroupsFrom_FirstOnly(articles_, labels, i + 1, seen \cup {labels[i]})

\* "for idx, label in enumerate(cluster_labels)": a dict of lists by label,
\* whose values come in the order in which the labels first appear
RECURSIVE GroupsFrom(_, _, _, _)
GroupsFrom(articles_, labels, i, seen) ==
    IF i > Len(articles_) THEN <<>>
    ELSE IF labels[i] \in seen THEN GroupsFrom(articles_, labels, i + 1, seen)
    ELSE <<MembersFrom(articles_, labels, labels[i], 1)>>
         \o GroupsFrom(articles_, labels, i + 1, seen \cup {labels[i]})

SingletonGroups(articles_) == [i \in DOMAIN articles_ |-> <<articles_[i]>>]

\* VectorProcessor.cluster_articles, when nothing but ValueError is raised
cluster_articles(articles_, fit) ==
    IF articles_ = <<>> THEN <<>>
    ELSE IF Len(articles_) = 1 THEN <<articles_>>
    ELSE IF fit.kind = "ValueError" THEN SingletonGroups(articles_)
    ELSE GroupsFrom(articles_, fit.labels, 1, {})

\* stage 2 of process_google_articles_clustered
ClustersOf(vp, clean_articles, fit) ==
    IF vp THEN cluster_articles(clean_articles, fit) ELSE SingletonGroups(clean_articles)

\* cluster_id = md5(person_title of the group's first article)
IdOf(title) == IF title = "t1" THEN "X" ELSE "Y"

UrlsOf(group) == [i \in DOMAIN group |-> group[i].url]

\* stage 3 of process_google_articles_clustered
FormatForDb(groups) ==
    [g \in DOMAIN groups |->
        [clustered |-> TRUE,
         cluster_data |-> ClusterData(IdOf(groups[g][1].title), UrlsOf(groups[g])),
         articles_data |-> UrlsOf(groups[g])]]

RECURSIVE Flatten(_)
Flatten(groups) == IF groups = <<>> THEN <<>> ELSE Head(groups) \o Flatten(Tail(groups))

FeedInit ==
    /\ articles = <<>>
    /\ clusters = {}
    /\ now = 0
    /\ last = NoCall
    /\ cyc = NoCycle
    /\ srch = NoSearch
    /\ gate = NoGate
    /\ ing = NoIngest
    /\ norm = NoNorm
    /\ run = NoRun
    /\ txn = NoTxn
    /\ rss \in {[NoFeed EXCEPT !.pc = "ready", !.lang = l, !.vp = v] :
                    l \in Languages, v \in BOOLEAN}

FeedIdle == UNCHANGED <<articles, clusters, now, last, cyc, srch, gate, ing, norm, run, txn>>

\* articles = self.google_client.search(query, language=lang, country='IN')
FeedFetch ==
    /\ rss.pc = "ready"
    /\ \E items \in FoundLists :
        rss' = [rss EXCEPT !.pc = IF items = <<>> THEN "done" ELSE "fetched",
                             !.found = GoogleSearch(items, rss.lang)]
    /\ FeedIdle

\* the gate and the normalizer; no clean article ends the pass
FeedProcess ==
    /\ rss.pc = "fetched"
    /\ \E clean_articles \in {CleanArticles(rss.found)} :
        rss' = [rss EXCEPT !.pc = IF clean_articles = <<>> THEN "done" ELSE "processed",
                             !.clean = clean_articles]
    /\ FeedIdle

\* the clusterer, or the fallback without it; an exception other than
\* ValueError leaves the pass
FeedCluster ==
    /\ rss.pc = "processed"
    /\ \E fit \in IF rss.vp THEN Fits(Len(rss.clean))
                  ELSE {f \in Fits(Len(rss.clean)) : f.kind = "ValueError"} :
        rss' = IF rss.vp /\ fit.kind = "raise"
                THEN [rss EXCEPT !.pc = "raised", !.fit = fit.kind,
                                  !.texts = EmbeddedTexts(rss.clean)]
                ELSE [rss EXCEPT !.pc = "clustered", !.fit = fit.kind,
                                  !.texts = IF rss.vp THEN EmbeddedTexts(rss.clean) ELSE <<>>,
                                  !.groups = ClustersOf(rss.vp, rss.clean, fit)]
    /\ FeedIdle

\* add_cluster for each group; the rows inserted carry the language of
\* their Article dict
FeedStore ==
    /\ rss.pc = "clustered"
    /\ \E fail \in Fails :
       \E r \in {StoreItems(DB(articles, clusters), now, FormatForDb(rss.groups), fail, TRUE)} :
        /\ articles' = r.db.articles
        /\ clusters' = r.db.clusters
        /\ rss' = [rss EXCEPT
                !.pc = "done",
                !.language = [u \in Urls |->
                    IF u \in Added(r.db)
                    THEN (CHOOSE a \in {Flatten(rss.groups)[i] : i \in DOMAIN Flatten(rss.groups)} :
                            a.url = u).language
                    ELSE @[u]]]
    /\ UNCHANGED <<now, last, cyc, srch, gate, ing, norm, run, txn>>

FeedNext ==
    \/ FeedFetch
    \/ FeedProcess
    \/ FeedCluster
    \/ FeedStore

FeedSpec == FeedInit /\ [][FeedNext]_vars

\* ================================================================ overlapping store operations
\* Two store calls, A and B, made by two collection cycles that run at the
\* same time.  Each call has its own session: what it adds stays pending in
\* the session until session.commit(); its queries see the committed tables
\* and its own pending rows (autoflush).  The database validates the
\* constraints of the tables when a session's rows become durable.
Ops == {"A", "B"}

\* (mutant) tables without the unique and primary-key constraints
IntegrityError_None(db, pending, creating, id) == FALSE

\* url is unique=True and id (the hash of the url) the primary key of
\* news_articles; id is the primary key of news_clusters.
IntegrityError(db, pending, creating, id) ==
    \/ \E i \in DOMAIN pending : UrlStored(db.articles, pending[i].url)
    \/ creating /\ ClusterExists(db.clusters, id)

\* the session's view of news_articles
View(op) == articles \o op.pending

\* The call opens its session; add_cluster queries the Cluster.
TxnBegin(o) ==
    /\ txn[o].pc = "idle"
    /\ \/ \E id \in ClusterIds, batch \in Batches :
            txn' = [txn EXCEPT ![o] =
                [NoOp EXCEPT !.pc = IF batch = <<>> THEN "commit" ELSE "loop",
                             !.op = "add_cluster", !.id = id, !.batch = batch, !.i = 1,
                             !.existing = ClusterExists(clusters, id)]]
       \/ \E url \in Urls :
            txn' = [txn EXCEPT ![o] =
                [NoOp EXCEPT !.pc = "loop", !.op = "add_unclustered_article",
                             !.batch = <<url>>, !.i = 1]]
    /\ UNCHANGED <<articles, clusters, now, last, cyc, srch, gate, ing, norm, run, rss>>

\* One URL query, and session.add when it finds nothing.
\* add_unclustered_article returns False, without a commit, when it finds a row.
TxnStep(o) ==
    LET op == txn[o]
        url == op.batch[op.i]
        view == AddIfNew(View(op), url, op.id, now)
        pending == SubSeq(view, Len(articles) + 1, Len(view))
    IN  /\ op.pc = "loop"
        /\ txn' = [txn EXCEPT ![o] =
                IF op.op = "add_unclustered_article" /\ UrlStored(View(op), url)
                THEN [op EXCEPT !.pc = "done", !.added = FALSE,
                                !.before = DB(articles, clusters),
                                !.after = DB(articles, clusters)]
                ELSE [op EXCEPT !.pending = pending,
                                !.i = @ + 1,
                                !.pc = IF op.i = Len(op.batch) THEN "commit" ELSE "loop"]]
        /\ UNCHANGED <<articles, clusters, now, last, cyc, srch, gate, ing, norm, run, rss>>

\* session.commit(), or the except branch: rollback and return 0 / False.
TxnCommit(o) ==
    LET op == txn[o]
        db == DB(articles, clusters)
        creating == op.op = "add_cluster" /\ ~op.existing
        rows == View(op)
        new_count == Len(op.pending)
        merged == {IF c.id = op.id
                   THEN [c EXCEPT !.source_count = Len(LinkedRows(rows, op.id)) + new_count]
                   ELSE c : c \in clusters}
        created == clusters \cup {NewsCluster(op.id, new_count, now)}
        sess == DB(rows, IF op.op # "add_cluster" THEN clusters
                         ELSE IF creating THEN created ELSE merged)
        conflict == IntegrityError(db, op.pending, creating, op.id)
    IN  /\ op.pc = "commit"
        /\ \E fail \in Fails :
           \E r \in {IF conflict \/ fail # 0 THEN Rollback(db, sess) ELSE Commit(db, sess)} :
            /\ articles' = r.articles
            /\ clusters' = r.clusters
            /\ txn' = [txn EXCEPT ![o] =
                    [op EXCEPT !.pc = "done",
                               !.raised = IF conflict THEN "IntegrityError"
                                          ELSE IF fail # 0 THEN "Exception" ELSE "",
                               !.ret = IF conflict \/ fail # 0 \/ op.op # "add_cluster"
                                       THEN 0 ELSE new_count,
                               !.added = ~conflict /\ fail = 0
                                         /\ op.op = "add_unclustered_article",
                               !.before = db,
                               !.after = r]]
        /\ UNCHANGED <<now, last, cyc, srch, gate, ing, norm, run, rss>>

TxnNext ==
    \E o \in Ops :
        \/ TxnBegin(o)
        \/ TxnStep(o)
        \/ TxnCommit(o)

TxnSpec == Init /\ [][TxnNext]_vars

\* ================================================================ claims
ClusterRow(clus, id) == CHOOSE c \in clus : c.id = id

\* the URLs of a batch
BatchUrls(batch) == {batch[i] : i \in DOMAIN batch}

\* the rows of a table that carry url
RowsOf(rows, url) == SelectSeq(rows, LAMBDA r : r.url = url)

LastIs(op) == last.op = op

\* C1: in every reachable state no two stored Articles have the same URL,
\* whatever add_cluster, add_unclustered_article, bulk_add_articles and
\* cleanup_old_data calls led to it, with repeated URLs inside a batch.
C1_UrlUnique ==
    \A i, j \in DOMAIN articles : articles[i].url = articles[j].url => i = j

\* a batch that names one new URL twice was stored by add_cluster
C1_Witness ==
    /\ LastIs("add_cluster")
    /\ last.fail = 0
    /\ Len(last.batch) = 2
    /\ last.batch[1] = last.batch[2]
    /\ ~UrlStored(last.pre.articles, last.batch[1])
    /\ UrlStored(articles, last.batch[1])

\* C2 (the claim as stated): after an add_cluster call that merges into an
\* existing Cluster whose source_count was the number of Articles linked to it,
\* the Cluster's source_count is again the number of Articles linked to it: the
\* linked count before the call plus the number the call added.
C2_SourceCountIsLinkedCount ==
    (/\ LastIs("add_cluster")
     /\ last.fail = 0
     /\ ClusterExists(last.pre.clusters, last.cluster_data.id)
     /\ ClusterRow(last.pre.clusters, last.cluster_data.id).source_count
            = Len(LinkedRows(last.pre.articles, last.cluster_data.id)))
    => /\ ClusterRow(clusters, last.cluster_data.id).source_count
            = Len(LinkedRows(articles, last.cluster_data.id))
       /\ ClusterRow(clusters, last.cluster_data.id).source_count
            = Len(LinkedRows(last.pre.articles, last.cluster_data.id)) + last.ret

\* C3: an article submitted to add_cluster whose URL is already stored is not
\* inserted again, its stored row keeps its cluster reference, and the tables
\* after the call (the Cluster's source_count among them) are what the call
\* yields without that article in the batch.
C3_StoredUrlUntouched ==
    LastIs("add_cluster") =>
        LET fresh == SelectSeq(last.batch, LAMBDA u : ~UrlStored(last.pre.articles, u))
        IN  /\ \A u \in BatchUrls(last.batch) :
                 UrlStored(last.pre.articles, u) =>
                     RowsOf(articles, u) = RowsOf(last.pre.articles, u)
            /\ DB(articles, clusters)
                 = add_cluster(last.pre, last.at, last.cluster_data, fresh, last.fail).db

\* a batch with a URL stored under another cluster (or under none) and a new URL
C3_Witness ==
    /\ LastIs("add_cluster")
    /\ last.fail = 0
    /\ last.ret = 1
    /\ \E i \in DOMAIN last.pre.articles :
         /\ last.pre.articles[i].url \in BatchUrls(last.batch)
         /\ last.pre.articles[i].cluster_id # last.cluster_data.id
         /\ last.pre.articles[i].cluster_id # NULL

\* C4: an add_cluster call (in which nothing raises) for an identity that is not
\* stored creates the Cluster, and its source_count is the number of Articles
\* the call inserted, whatever source_count the descriptor carries.
C4_CreatedCountIsInserted ==
    (/\ LastIs("add_cluster")
     /\ last.fail = 0
     /\ ~ClusterExists(last.pre.clusters, last.cluster_data.id))
    => /\ ClusterExists(clusters, last.cluster_data.id)
       /\ ClusterRow(clusters, last.cluster_data.id).source_count
            = Len(articles) - Len(last.pre.articles)

\* a Cluster was created from a descriptor whose source_count is not the number inserted
C4_Witness ==
    /\ LastIs("add_cluster")
    /\ last.fail = 0
    /\ ~ClusterExists(last.pre.clusters, last.cluster_data.id)
    /\ ClusterExists(clusters, last.cluster_data.id)
    /\ Len(articles) > Len(last.pre.articles)
    /\ last.cluster_data.source_count # Len(articles) - Len(last.pre.articles)

\* C5: add_cluster returns the number of Article rows the call newly persisted,
\* and 0 when every submitted URL was already stored.
C5_ReturnsNewRows ==
    LastIs("add_cluster") =>
        /\ last.ret = Len(articles) - Len(last.pre.articles)
        /\ (\A u \in BatchUrls(last.batch) : UrlStored(last.pre.articles, u))
              => last.ret = 0

\* a non-empty batch of stored URLs only was submitted, and nothing raised
C5_Witness ==
    /\ LastIs("add_cluster")
    /\ last.fail = 0
    /\ last.batch # <<>>
    /\ \A u \in BatchUrls(last.batch) : UrlStored(last.pre.articles, u)
    /\ last.ret = 0

\* C6: add_unclustered_article returns True exactly when it added a row; when
\* the URL is already stored it returns False and leaves storage unchanged; when
\* the URL is not stored (and nothing raises) it appends the Article with no
\* cluster reference and returns True.
C6_Standalone ==
    LastIs("add_unclustered_article") =>
        LET url == last.batch[1]
            was == UrlStored(last.pre.articles, url)
        IN  /\ (last.ret = TRUE) <=> (Len(articles) = Len(last.pre.articles) + 1)
            /\ was => last.ret = FALSE /\ DB(articles, clusters) = last.pre
            /\ (~was /\ last.fail = 0) =>
                   /\ last.ret = TRUE
                   /\ articles = Append(last.pre.articles, NewsArticle(url, NULL, last.at))
                   /\ clusters = last.pre.clusters

\* a new URL was stored standalone while another Article was already there
C6_Witness ==
    /\ LastIs("add_unclustered_article")
    /\ last.ret = TRUE
    /\ last.pre.articles # <<>>
    /\ articles[Len(articles)].cluster_id = NULL
    /\ articles[Len(articles)].url = last.batch[1]

\* What the running cycle has counted as new so far: total_new, the current
\* person's new_articles, and the feed step's new_count
C7_Counted == cyc.total_new + cyc.new_articles + cyc.rss_count

\* C7: when an item whose Article a cycle stored is returned again by a source
\* in the next cycle, storage holds exactly one Article with its URL, during
\* the rest of that second cycle and after it (its cleanup included: the
\* Article is one cycle old and the horizon is at least one day); the second
\* cycle inserts no row for the URL, and what it counts as new is at most the
\* number of URLs it inserted (less when a feed step raised after counting),
\* so the item adds zero to the count.
C7_Idempotent ==
    /\ \A u \in cyc.again :
         /\ CountUrl(articles, u) = 1
         /\ u \notin cyc.added
    /\ C7_Counted <= Cardinality(cyc.added)

\* a second cycle has ended in which a source returned an item the first cycle
\* had stored, and another URL was inserted and counted as the one new article
C7_Witness ==
    /\ cyc.n = 2
    /\ cyc.pc = "done"
    /\ \E u \in cyc.again : CountUrl(articles, u) = 1
    /\ cyc.total_new = 1
    /\ cyc.reports = 1

\* C8: when an insert or the commit of an add_cluster call fails, no Cluster row
\* and no Article of that call remains: the tables are as before the call, and
\* the call returns 0.
C8_FailedCallLeavesNothing ==
    (LastIs("add_cluster") /\ last.fail # 0) =>
        /\ articles = last.pre.articles
        /\ clusters = last.pre.clusters
        /\ last.ret = 0

\* the failed call's session had a new Cluster and a new Article in it
C8_Witness ==
    /\ LastIs("add_cluster")
    /\ last.fail # 0
    /\ ~ClusterExists(last.pre.clusters, last.cluster_data.id)
    /\ \E u \in BatchUrls(last.batch) : ~UrlStored(last.pre.articles, u)
    /\ last.pre.articles # <<>>

\* C9: a cleanup_old_data call (in which nothing raises) with horizon H leaves
\* no Article collected before the cutoff now - H and no Cluster created before
\* it, and keeps every Article and Cluster that is not older, unchanged.
C9_Cutoff == last.at - last.days

C10_DeletionCascades ==
    (LastIs("cleanup_old_data") /\ last.fail = 0) =>
        \A c \in last.pre.clusters \ clusters :
            \A j \in DOMAIN articles : articles[j].cluster_id # c.id

\* ---------------------------------------------------------------- the search call
SearchLog == srch.log

IsAnswer(i, statuses) ==
    /\ SearchLog[i].ev = "answer"
    /\ SearchLog[i].answer.status \in statuses

IsReturnNone(i) ==
    /\ i \in DOMAIN SearchLog
    /\ SearchLog[i].ev = "return"
    /\ SearchLog[i].result = NoResult

RequestsSent == Len(SelectSeq(SearchLog, LAMBDA e : e.ev = "request"))

\* C11: a 401 answer is followed by the return of None and by nothing else:
\* no request and no sleep comes after it, on whichever attempt it arrives.
C11_UnauthorizedIsFinal ==
    \A i \in DOMAIN SearchLog :
        IsAnswer(i, {"401"}) =>
            /\ srch.pc = "returned"
            /\ Len(SearchLog) = i + 1
            /\ IsReturnNone(i + 1)

\* a 401 arrived on the second attempt, after a 429 and its sleep
C11_Witness ==
    \E i \in DOMAIN SearchLog :
        /\ IsAnswer(i, {"401"})
        /\ SearchLog[i].attempt = 1
        /\ \E j \in 1..i : SearchLog[j].ev = "sleep"

\* C12 (the claim as stated): when a call has returned, every 403 answer to a
\* request with clustering enabled is followed by a request with clustering
\* disabled.
C12_DowngradeAlwaysTried ==
    srch.pc = "returned" =>
        \A i \in DOMAIN SearchLog :
            (IsAnswer(i, {"403"}) /\ SearchLog[i].clustering) =>
                \E j \in DOMAIN SearchLog :
                    /\ j > i
                    /\ SearchLog[j].ev = "request"
                    /\ ~SearchLog[j].clustering

\* C13 (the claim as stated): no request follows a 403 answer to a request that
\* already had clustering disabled.
C13_SingleDowngrade ==
    \A i \in DOMAIN SearchLog :
        (IsAnswer(i, {"403"}) /\ ~SearchLog[i].clustering) =>
            \A j \in DOMAIN SearchLog : j > i => SearchLog[j].ev # "request"

\* C14: a 429 answer whose Retry-After header is absent or a number of seconds
\* is followed by a sleep of that number of seconds (60 when absent); after the
\* sleep the same request (same clustering setting) is the next thing the call
\* does when an attempt is left, and None is returned when none is left.
C14_Wait(i) ==
    IF SearchLog[i].answer.retry_after.kind = "absent" THEN 60
    ELSE SearchLog[i].answer.retry_after.secs

C14_RateLimitSleepsThenRetries ==
    \A i \in DOMAIN SearchLog :
        (IsAnswer(i, {"429"}) /\ SearchLog[i].answer.retry_after.kind # "date") =>
            /\ i + 1 \in DOMAIN SearchLog
            /\ SearchLog[i + 1].ev = "sleep"
            /\ SearchLog[i + 1].secs = C14_Wait(i)
            /\ IF SearchLog[i].attempt + 1 < retry_count
               THEN IF Len(SearchLog) = i + 1
                    THEN /\ srch.pc = "loop"
                         /\ srch.attempt = SearchLog[i].attempt + 1
                         /\ srch.clustering_enabled = SearchLog[i].clustering
                    ELSE /\ SearchLog[i + 2].ev = "request"
                         /\ SearchLog[i + 2].attempt = SearchLog[i].attempt + 1
                         /\ SearchLog[i + 2].clustering = SearchLog[i].clustering
               ELSE /\ srch.pc = "returned"
                    /\ Len(SearchLog) = i + 2
                    /\ IsReturnNone(i + 2)

\* a call met a 429 with a header of 2 seconds, retried, met 429s without a
\* header until the attempts ran out, and returned None
C14_Witness ==
    /\ srch.pc = "returned"
    /\ RequestsSent = retry_count
    /\ \A i \in DOMAIN SearchLog : SearchLog[i].ev = "answer" => IsAnswer(i, {"429"})
    /\ SearchLog[3].secs = 2
    /\ SearchLog[6].secs = 60
    /\ SearchLog[9].secs = 60
    /\ IsReturnNone(10)

\* C15: a call sends at most retry_count requests; while it runs, the number of
\* requests sent is its attempt counter, which is below retry_count and grows
\* with every pass, so the call ends after at most retry_count passes; when it
\* has ended it has returned a result or None.
C15_BoundedAttempts ==
    /\ RequestsSent <= retry_count
    /\ srch.pc = "loop" =>
         /\ srch.attempt < retry_count
         /\ RequestsSent = srch.attempt
    /\ srch.pc = "returned" =>
         /\ SearchLog[Len(SearchLog)].ev = "return"
         /\ SearchLog[Len(SearchLog)].result \in SearchResults \cup {NoResult}

\* a call that met a 429, a 403 and a timeout has returned None after
\* retry_count requests
C15_Witness ==
    /\ srch.pc = "returned"
    /\ RequestsSent = retry_count
    /\ IsReturnNone(Len(SearchLog))
    /\ \E i, j, k \in DOMAIN SearchLog :
         /\ IsAnswer(i, {"429"})
         /\ IsAnswer(j, {"403"})
         /\ IsAnswer(k, {"timeout"})

\* C16: a timeout or a request exception on attempt k (counted from 0) is
\* followed by a sleep of 2^k seconds: 1, 2, 4.
C16_Seconds == <<1, 2, 4>>

C16_ExponentialBackoff ==
    \A i \in DOMAIN SearchLog :
        IsAnswer(i, {"timeout", "request_error", "500"}) =>
            /\ i + 1 \in DOMAIN SearchLog
            /\ SearchLog[i + 1].ev = "sleep"
            /\ SearchLog[i + 1].secs = C16_Seconds[SearchLog[i].attempt + 1]

\* three transient errors in a row: the call slept 1, 2 and 4 seconds
C16_Witness ==
    /\ srch.pc = "returned"
    /\ \A i \in DOMAIN SearchLog :
         SearchLog[i].ev = "answer" => IsAnswer(i, {"timeout", "request_error"})
    /\ SearchLog[3].secs = 1
    /\ SearchLog[6].secs = 2
    /\ SearchLog[9].secs = 4

\* ---------------------------------------------------------------- the order of a cycle
C17_Sources == <<"newscatcher", "feed", "newsdata">>

\* the source steps of all tracked persons, person by person
C17_AllSources ==
    [i \in 1..(3 * NumPersons) |->
        [step |-> C17_Sources[((i - 1) % 3) + 1], person |-> ((i - 1) \div 3) + 1]]

C17_Cleanup == [step |-> "cleanup", person |-> 0]
C17_Report == [step |-> "report", person |-> 0]
C17_Stats == [step |-> "stats", person |-> 0]

C17_WithReport == C17_AllSources \o <<C17_Cleanup, C17_Report, C17_Stats>>
C17_WithoutReport == C17_AllSources \o <<C17_Cleanup, C17_Stats>>

IsPrefix(p, q) == Len(p) <= Len(q) /\ SubSeq(q, 1, Len(p)) = p

\* C17: the steps a cycle has invoked so far are always an initial part of:
\* for each tracked person in list order the clustering API, the feed, the
\* simple search; then the cleanup; then the report, if it is triggered; then
\* the statistics.  A cycle that has ended has invoked the whole list.
C17_FixedOrder ==
    /\ \/ IsPrefix(cyc.trace, C17_WithReport)
       \/ IsPrefix(cyc.trace, C17_WithoutReport)
    /\ cyc.pc = "done" => cyc.trace \in {C17_WithReport, C17_WithoutReport}

\* a second cycle has ended that invoked every step, the report included
C17_Witness ==
    /\ cyc.n = 2
    /\ cyc.pc = "done"
    /\ cyc.trace = C17_WithReport

\* C18: whatever failed or raised in a source step, the cycle is at the step
\* that follows in the list: each source step of each person is reached after
\* the steps before it, and once the cycle is past the sources it has invoked
\* every source step of every person and the cleanup.
C18_ErrorIsolation ==
    /\ cyc.pc = "newscatcher" => Len(cyc.trace) = 3 * (cyc.person - 1)
    /\ cyc.pc = "rss_en" => Len(cyc.trace) = 3 * (cyc.person - 1) + 1
    /\ cyc.pc \in {"rss_hi", "newsdata"} => Len(cyc.trace) = 3 * (cyc.person - 1) + 2
    /\ cyc.pc = "cleanup" => cyc.trace = C17_AllSources
    /\ cyc.pc \in {"report", "stats", "done"} =>
         IsPrefix(C17_AllSources \o <<C17_Cleanup>>, cyc.trace)

\* a cycle has ended in which the feed step of each person stored an Article
\* in its first pass and raised in its second, so that nothing was counted;
\* all source steps and the cleanup were invoked all the same
C18_Witness ==
    /\ cyc.pc = "done"
    /\ cyc.total_new = 0
    /\ Cardinality(cyc.added) = 2
    /\ cyc.trace = C17_WithoutReport

\* C19 (the claim as stated): once a cycle is past its report step, the report
\* was triggered if and only if the cycle inserted at least one Article.
C19_ReportIffNewArticle ==
    cyc.pc \in {"stats", "done"} =>
        (cyc.reports = 1 <=> cyc.added # {})

\* ---------------------------------------------------------------- the relevance gate
\* two characters are the same letter up to case
SameLetter(a, b) == LowerChar(a) = LowerChar(b)

\* positions i..j of name are a whitespace-delimited part of it
IsPart(name, i, j) ==
    /\ i <= j
    /\ \A t \in i..j : name[t] # " "
    /\ i = 1 \/ name[i - 1] = " "
    /\ j = Len(name) \/ name[j + 1] = " "

\* the part i..j of name occurs in str at offset k, up to case
OccursAt(name, i, j, str, k) ==
    /\ k + (j - i + 1) <= Len(str)
    /\ \A t \in 0..(j - i) : SameLetter(name[i + t], str[k + 1 + t])

C20_Expected ==
    /\ gate.text # <<>>
    /\ \E e \in DOMAIN gate.ents :
         /\ gate.ents[e].label = "PERSON"
         /\ \E i, j \in DOMAIN gate.person_name :
              /\ IsPart(gate.person_name, i, j)
              /\ j - i + 1 > 2
              /\ \E k \in 0..Len(gate.ents[e].text) :
                     OccursAt(gate.person_name, i, j, gate.ents[e].text, k)

\* C20: verify_person accepts exactly when the text is not empty and some
\* entity labeled PERSON has a text that contains, up to case, a
\* whitespace-delimited part of the tracked name that is longer than 2
\* characters; entities with another label do not count.
C20_GateAcceptsOnPersonPart ==
    gate.pc = "returned" => (gate.ret <=> C20_Expected)

\* for the name "Narendra Modi" the organization "Modi Toys" was passed over
\* and the person "MODI" accepted
C20_Witness ==
    /\ gate.pc = "returned"
    /\ gate.person_name = NarendraModi
    /\ gate.ents = <<[text |-> ModiToys, label |-> "ORG"], [text |-> MODI, label |-> "PERSON"]>>
    /\ gate.ret

\* ---------------------------------------------------------------- C21
\* the URLs of the rows the last ingestion step inserted
StepAdded ==
    {u \in Urls : UrlStored(articles, u) /\ ~UrlStored(ing.step.pre.articles, u)}

GatedSources == {"newscatcher", "google_rss", "google_rss_raised"}

\* C21: every Article that a step of the clustering API or of the feed
\* persisted was accepted by the gate for the person of the step, and is stored
\* under that person; an item on which the gate only raised (or which it only
\* rejected) is not persisted.
C21_OnlyAccepted ==
    ing.step.source \in GatedSources =>
        \A u \in StepAdded :
            /\ u \in ing.step.accepted
            /\ ing.person_tracked[u] = ing.step.person

\* a gated step stored an accepted article and dropped one the gate raised on
C21_Witness ==
    /\ ing.step.source \in GatedSources
    /\ \E u \in StepAdded : u \in ing.step.accepted
    /\ \E u \in ing.step.raising \ ing.step.accepted :
            ~UrlStored(articles, u)

\* ---------------------------------------------------------------- C22
\* C22: when the NER model or the embedding model fails to initialize, the
\* process does not crash: construction completes and the process runs, with
\* the feature of the failed model unavailable.
C22_InitSurvivesModelFailure ==
    (ing.proc # "starting" /\ (~ing.ner \/ ~ing.vp)) => ing.proc = "running"

\* ---------------------------------------------------------------- C23
\* the processed items are one singleton cluster descriptor per article of clean
Singletons(clean, processed) ==
    /\ Len(processed) = Len(clean)
    /\ \A i \in DOMAIN processed :
        /\ processed[i].articles_data = <<clean[i]>>
        /\ processed[i].cluster_data.source_count = 1

\* C23: with the clustering model unavailable, a feed pass does not raise and
\* process_google_articles_clustered returns one singleton cluster descriptor
\* for each article the gate accepted.
C23_SingletonsWithoutModel ==
    (~ing.vp /\ ing.step.source \in {"google_rss", "google_rss_raised"}) =>
        /\ ing.step.source = "google_rss"
        /\ {ing.step.clean[i] : i \in DOMAIN ing.step.clean} = ing.step.accepted
        /\ Singletons(ing.step.clean, ing.step.processed)

\* without the model, a feed pass stored two accepted articles in two clusters
C23_Witness ==
    /\ ~ing.vp
    /\ ing.step.source = "google_rss"
    /\ Cardinality(ing.step.accepted) = 2
    /\ Len(ing.step.processed) = 2
    /\ ing.step.count = 2
    /\ \A u \in ing.step.accepted :
            \E i \in DOMAIN articles : articles[i].url = u /\ articles[i].cluster_id # NULL

\* ---------------------------------------------------------------- C24
\* the n raw items of the last step were all accepted by the gate, and their
\* links are n different URLs of which none was stored before the step
AllAcceptedDistinctNew ==
    /\ ing.step.n_found > 0
    /\ Cardinality(ing.step.accepted) = ing.step.n_found
    /\ \A u \in ing.step.accepted : ~UrlStored(ing.step.pre.articles, u)

\* C24: a clustering-API answer tagged unclustered with n flat articles, all
\* accepted and with distinct URLs not yet stored, leaves n more Articles, each
\* without a cluster reference, creates no Cluster row and is counted as n new.
\* (For a step whose store calls do not fail.)
C24_FlatStoredStandalone ==
    (/\ ing.step.source = "newscatcher"
     /\ ing.step.tag = "flat"
     /\ ing.step.fail = 0
     /\ AllAcceptedDistinctNew) =>
        /\ Len(articles) = Len(ing.step.pre.articles) + ing.step.n_found
        /\ SubSeq(articles, 1, Len(ing.step.pre.articles)) = ing.step.pre.articles
        /\ \A u \in ing.step.accepted :
                /\ CountUrl(articles, u) = 1
                /\ RowsOf(articles, u)[1].cluster_id = NULL
        /\ clusters = ing.step.pre.clusters
        /\ ing.step.count = ing.step.n_found

\* a flat answer with two accepted articles was stored as two standalone rows
C24_Witness ==
    /\ ing.step.source = "newscatcher"
    /\ ing.step.tag = "flat"
    /\ ing.step.fail = 0
    /\ AllAcceptedDistinctNew
    /\ ing.step.n_found = 2
    /\ ing.step.count = 2
    /\ Len(articles) = 2

\* ---------------------------------------------------------------- C25
\* the identity of the one cluster the last step submitted
C25_Id == ing.step.processed[1].cluster_data.id

\* C25: a feed pass with k items, all accepted and with distinct URLs not yet
\* stored, which the clusterer puts in one group, leaves exactly one more
\* Cluster, to which all k Articles are linked and whose source_count is k.
\* (For a group whose cluster identity is not stored yet, and a step whose
\* store call does not fail.)
C25_OneGroupOneCluster ==
    (/\ ing.step.source = "google_rss"
     /\ ing.step.fail = 0
     /\ AllAcceptedDistinctNew
     /\ Len(ing.step.processed) = 1
     /\ ~ClusterExists(ing.step.pre.clusters, C25_Id)) =>
        /\ clusters \ ing.step.pre.clusters = {ClusterRow(clusters, C25_Id)}
        /\ ing.step.pre.clusters \subseteq clusters
        /\ ClusterRow(clusters, C25_Id).source_count = ing.step.n_found
        /\ Len(LinkedRows(articles, C25_Id)) = ing.step.n_found
        /\ \A u \in ing.step.accepted :
                /\ CountUrl(articles, u) = 1
                /\ RowsOf(articles, u)[1].cluster_id = C25_Id
        /\ ing.step.count = ing.step.n_found

\* the clusterer put two accepted feed items in one group, stored as one cluster
C25_Witness ==
    /\ ing.step.source = "google_rss"
    /\ ing.vp
    /\ ing.step.fail = 0
    /\ AllAcceptedDistinctNew
    /\ ing.step.n_found = 2
    /\ Len(ing.step.processed) = 1
    /\ ClusterExists(clusters, C25_Id)
    /\ ClusterRow(clusters, C25_Id).source_count = 2

\* ---------------------------------------------------------------- C26
\* the links of the last step's items that were not stored before the step
C26_NewLinks ==
    {u \in ing.step.accepted : ~UrlStored(ing.step.pre.articles, u)}

\* C26: a step of the simple search persists every result item that has a
\* link whose URL is not yet stored as a standalone Article, and counts each
\* as one new article.
C26_SearchItemsStored ==
    ing.step.source = "newsdata_io" =>
        /\ \A u \in C26_NewLinks :
                /\ CountUrl(articles, u) = 1
                /\ RowsOf(articles, u)[1].cluster_id = NULL
        /\ ing.step.count = Cardinality(C26_NewLinks)

\* ---------------------------------------------------------------- C27
\* C27: no normalizer path, gated or ungated, turns a raw item without a link
\* into an Article: no normalised article and no stored Article has an empty
\* URL, and the items after a skipped one are normalised all the same (the
\* normalised articles are those of the items that have a link and, on a gated
\* path, were accepted).
C27_NoArticleWithoutLink ==
    /\ \A i \in DOMAIN articles : articles[i].url # NoLink
    /\ \A i \in DOMAIN ing.step.clean : ing.step.clean[i] # NoLink
    /\ ing.step.source # "none" =>
            {ing.step.clean[i] : i \in DOMAIN ing.step.clean} = ing.step.accepted

\* a gated step skipped an item without a link and stored another item
C27_Witness ==
    /\ ing.step.source \in GatedSources
    /\ ing.step.linkless
    /\ \E u \in StepAdded : u \in ing.step.accepted

\* the ungated normalizer skipped an item without a link and kept another
C27_WitnessUngated ==
    /\ ing.step.source = "newsdata_io"
    /\ ing.step.linkless
    /\ ing.step.clean # <<>>

\* ---------------------------------------------------------------- C30
\* C30: every Article that is linked to a Cluster is stored under the same
\* tracked person as that Cluster, also when the clustering API supplies one
\* cluster identity in its answers for two different persons.
C30_SamePersonAsCluster ==
    \A i \in DOMAIN articles :
        (articles[i].cluster_id # NULL /\ ClusterExists(clusters, articles[i].cluster_id)) =>
            ing.person_tracked[articles[i].url] = ing.cluster_person[articles[i].cluster_id]

\* ---------------------------------------------------------------- C28
\* the categories in the order the claim gives
C28_Order ==
    <<"Politics", "Governance", "Economy", "Infrastructure", "Diplomacy", "Defence",
      "Technology", "Social", "Event">>

C28_Upper(c) ==
    CASE c = "a" -> "A" [] c = "b" -> "B" [] c = "c" -> "C" [] c = "d" -> "D" [] c = "e" -> "E"
      [] c = "f" -> "F" [] c = "g" -> "G" [] c = "h" -> "H" [] c = "i" -> "I" [] c = "j" -> "J"
      [] c = "k" -> "K" [] c = "l" -> "L" [] c = "m" -> "M" [] c = "n" -> "N" [] c = "o" -> "O"
      [] c = "p" -> "P" [] c = "q" -> "Q" [] c = "r" -> "R" [] c = "s" -> "S" [] c = "t" -> "T"
      [] c = "u" -> "U" [] c = "v" -> "V" [] c = "w" -> "W" [] c = "x" -> "X" [] c = "y" -> "Y"
      [] c = "z" -> "Z"
      [] OTHER -> c

\* keyword occurs in title at offset k, whatever the case of the letters
C28_OccursAt(keyword, title, k) ==
    /\ k + Len(keyword) <= Len(title)
    /\ \A t \in 1..Len(keyword) : C28_Upper(keyword[t]) = C28_Upper(title[k + t])

\* one of the keywords of the category occurs in the title
C28_Matches(category, title) ==
    \E r \in DOMAIN CATEGORY_KEYWORDS :
        /\ CATEGORY_KEYWORDS[r].category = category
        /\ \E w \in DOMAIN CATEGORY_KEYWORDS[r].keywords :
           \E k \in 0..Len(title) :
                C28_OccursAt(CATEGORY_KEYWORDS[r].keywords[w], title, k)

C28_Expected(title) ==
    IF \A i \in DOMAIN C28_Order : ~C28_Matches(C28_Order[i], title) THEN "Other"
    ELSE C28_Order[CHOOSE i \in DOMAIN C28_Order :
                        /\ C28_Matches(C28_Order[i], title)
                        /\ \A j \in 1..(i - 1) : ~C28_Matches(C28_Order[j], title)]

\* C28: _categorize_text returns the first category, in the order Politics,
\* Governance, Economy, Infrastructure, Diplomacy, Defence, Technology, Social,
\* Event, one of whose keywords occurs in the title whatever its case, and
\* 'Other' when none occurs or the title is empty; the category is a function
\* of the title alone.
C28_FirstMatchingCategory ==
    (norm.pc = "done" /\ norm.fn = "_categorize_text") =>
        norm.category = C28_Expected(norm.title)

\* a title with capital letters that matches keywords of two categories got
\* the earlier one
C28_Witness ==
    /\ norm.pc = "done" /\ norm.fn = "_categorize_text"
    /\ lower(norm.title) # norm.title
    /\ \E i \in DOMAIN C28_Order, j \in DOMAIN C28_Order :
        /\ i < j
        /\ norm.category = C28_Order[i]
        /\ C28_Matches(C28_Order[j], norm.title)

\* a title without any keyword, and the empty title, got 'Other'
C28_WitnessOther ==
    /\ norm.pc = "done" /\ norm.fn = "_categorize_text"
    /\ norm.title # <<>>
    /\ norm.category = "Other"

\* ---------------------------------------------------------------- C29
\* C29: _parse_date never fails: for a missing or empty value, a string in a
\* supported format or in none, and a value that is no string, it returns a
\* timestamp, so no item and no cluster is dropped because of its date.
C29_DateNeverFails ==
    (norm.pc = "done" /\ norm.fn # "_categorize_text") =>
        /\ ~norm.date.raised
        /\ norm.kept

\* ---------------------------------------------------------------- C31
AddOps == {"add_cluster", "add_unclustered_article", "bulk_add_articles"}

\* C31: an add operation leaves every Article that was stored before it as it
\* was, its cluster reference included, and every Cluster that was stored
\* before it as it was, but for the source_count of the Cluster the call is for.
C31_AddKeepsStoredState ==
    last.op \in AddOps =>
        /\ IsPrefix(last.pre.articles, articles)
        /\ \A c \in last.pre.clusters :
            IF c.id = last.cluster_data.id /\ last.op = "add_cluster"
            THEN \E d \in clusters : [d EXCEPT !.source_count = c.source_count] = c
            ELSE c \in clusters
        /\ Cardinality({c.id : c \in clusters}) = Cardinality(clusters)

\* an add_cluster call merged a new Article into a stored Cluster while
\* another Cluster and an Article linked to it were stored
C31_Witness ==
    /\ LastIs("add_cluster")
    /\ last.fail = 0
    /\ last.ret > 0
    /\ ClusterExists(last.pre.clusters, last.cluster_data.id)
    /\ \E c \in last.pre.clusters : c.id # last.cluster_data.id
    /\ \E i \in DOMAIN last.pre.articles :
         /\ last.pre.articles[i].cluster_id # last.cluster_data.id
         /\ last.pre.articles[i].url \in BatchUrls(last.batch)

\* ---------------------------------------------------------------- C32
\* C32: at most one execution of run_news_collection is under way at any
\* time, under both entry points, the initial run on startup included.
C32_OneCycleAtATime == ~(run.main_step > 0 /\ run.job_step > 0)

\* ---------------------------------------------------------------- C33
\* the body of the 200 answer that the search returned on
C33_Body == SearchLog[Len(SearchLog) - 1].answer.body

C33_Result == SearchLog[Len(SearchLog)].result

C33_Succeeded ==
    /\ srch.pc = "returned"
    /\ Len(SearchLog) > 1
    /\ IsAnswer(Len(SearchLog) - 1, {"200"})

\* C33: the result of a successful search is tagged clustered exactly when the
\* provider's response holds a non-empty clusters list, and then carries it;
\* otherwise it is tagged unclustered with an empty clusters list and the
\* response's articles; an empty response gives a result, not a failure, with
\* no clusters and no articles.
C33_TaggedByClusters ==
    C33_Succeeded =>
        /\ C33_Result.ok
        /\ C33_Result.clustered <=> (C33_Body.clusters # <<>>)
        /\ C33_Result.clustered => C33_Result.clusters = C33_Body.clusters
        /\ ~C33_Result.clustered => C33_Result.clusters = <<>>
        /\ C33_Result.articles = C33_Body.articles

\* a response with clusters and articles was tagged clustered
C33_Witness ==
    /\ C33_Succeeded
    /\ C33_Body.clusters # <<>>
    /\ C33_Body.articles # <<>>
    /\ C33_Result.clustered

\* an empty response gave a result without clusters and articles
C33_WitnessEmpty ==
    /\ C33_Succeeded
    /\ C33_Body = NoBody
    /\ C33_Result.ok
    /\ ~C33_Result.clustered

\* ---------------------------------------------------------------- C34
\* how often the article a occurs in the list
C34_Count(list, a) == Cardinality({i \in DOMAIN list : list[i] = a})

\* the feed items of the pass that the gate accepted and that have a link
C34_Accepted == {i \in DOMAIN rss.found : rss.found[i].gate = "accept" /\ rss.found[i].link # ""}

C34_Grouped == rss.pc = "clustered" \/ (rss.pc = "done" /\ rss.groups # <<>>)

\* C34: the groups of a feed pass are a partition of the accepted Articles:
\* no group is empty, and every accepted Article is in exactly one group,
\* whether the model clustered them, the batch had one Article, fit_predict
\* raised ValueError, or the model is not loaded.
C34_GroupsPartitionAccepted ==
    C34_Grouped =>
        /\ \A g \in DOMAIN rss.groups : rss.groups[g] # <<>>
        /\ Len(Flatten(rss.groups)) = Cardinality(C34_Accepted)
        /\ \A i \in C34_Accepted :
            LET a == CHOOSE c \in {rss.clean[k] : k \in DOMAIN rss.clean} :
                        c.url = rss.found[i].link
            IN  C34_Count(Flatten(rss.groups), a)
                    = Cardinality({j \in C34_Accepted : rss.found[j].link = rss.found[i].link})

\* the model put two accepted Articles in one group
C34_Witness ==
    /\ C34_Grouped
    /\ rss.vp /\ rss.fit = "labels"
    /\ Len(rss.clean) = 2
    /\ rss.clean[1] # rss.clean[2]
    /\ Len(rss.groups) = 1

\* fit_predict raised ValueError and two Articles became two groups
C34_WitnessValueError ==
    /\ C34_Grouped
    /\ rss.vp /\ rss.fit = "ValueError"
    /\ Len(rss.clean) = 2
    /\ Len(rss.groups) = 2

\* ---------------------------------------------------------------- C35
\* C35: the text the clusterer embeds for each Article the feed pipeline
\* passes to it is the Article's title together with its body excerpt.
C35_EmbedsTitleAndBody ==
    (rss.vp /\ rss.texts # <<>>) =>
        \A i \in DOMAIN rss.clean :
            rss.texts[i] = rss.clean[i].title \o " " \o rss.clean[i].content

\* ---------------------------------------------------------------- C39
\* C39: every Article stored from the feed carries the language of the
\* request that fetched it: 'hi' for items fetched with 'hi', 'en' with 'en'.
C39_LanguageOfRequest ==
    \A i \in DOMAIN articles : rss.language[articles[i].url] = rss.lang

\* ---------------------------------------------------------------- C36
\* C36: referential integrity: in every state reachable by add_cluster,
\* add_unclustered_article and cleanup_old_data, every stored Article whose
\* cluster reference is not null refers to a stored Cluster.
C36_ReferentialIntegrity ==
    \A i \in DOMAIN articles :
        articles[i].cluster_id # NULL => ClusterExists(clusters, articles[i].cluster_id)

\* ---------------------------------------------------------------- C37
\* C37: when add_cluster commits after creating a Cluster row, at least one
\* stored Article is linked to that Cluster.
C37_CreatedClusterHasArticle ==
    (LastIs("add_cluster") /\ last.fail = 0) =>
        \A c \in clusters :
            ~ClusterExists(last.pre.clusters, c.id) =>
                \E i \in DOMAIN articles : articles[i].cluster_id = c.id

\* ---------------------------------------------------------------- C38
\* the operation tried to insert url: the row was pending in its session
C38_Inserting(o, url) ==
    \E i \in DOMAIN txn[o].pending : txn[o].pending[i].url = url

C38_BothReturned == \A o \in Ops : txn[o].pc = "done"

\* C38: when two overlapping store operations both try to insert the same URL
\* that is not stored yet, exactly one Article row for that URL exists after
\* both returned and exactly one of them raised on the constraint, when no
\* commit failed for another reason; an operation whose commit fails, for
\* whatever reason, leaves the tables as they were and reports zero new
\* articles; and no URL is ever stored twice.
C38_OneRowOneLoser ==
    /\ \A url \in Urls : CountUrl(articles, url) <= 1
    /\ \A o \in Ops :
        (txn[o].pc = "done" /\ txn[o].raised # "") =>
            /\ txn[o].after = txn[o].before
            /\ txn[o].ret = 0
            /\ ~txn[o].added
    /\ \A url \in Urls :
        ( /\ C38_BothReturned
          /\ \A o \in Ops : C38_Inserting(o, url)
          /\ \A o \in Ops : txn[o].raised # "Exception" ) =>
            /\ CountUrl(articles, url) = 1
            /\ \E o \in Ops :
                /\ txn[o].raised = "IntegrityError"
                /\ \A p \in Ops \ {o} : txn[p].raised = ""

\* Both operations had u1 pending, one committed it and the other's commit
\* raised on the constraint, discarding a second URL of its batch with it.
C38_Witness ==
    /\ C38_BothReturned
    /\ \A o \in Ops : C38_Inserting(o, "u1")
    /\ CountUrl(articles, "u1") = 1
    /\ \E o \in Ops :
        /\ txn[o].raised = "IntegrityError"
        /\ C38_Inserting(o, "u2")
        /\ CountUrl(articles, "u2") = 0

====
